---------------------------- MODULE Spec2Model ----------------------------
(***************************************************************************)
(* Media resolution and acquisition engine of the music bot (package dl).  *)
(*                                                                         *)
(* Part one models the acquisition orchestrator YouTubeData.downloadTrack  *)
(* with its two backends: the remote polling API (downloadWithApi,         *)
(* downloadWithApiVideo) and the yt-dlp subprocess (downloadWithYtDlp).    *)
(* The repository holds two implementations of YouTubeData in              *)
(* src/unnamed/part_000: lines 1-564 (variant 1) and lines 566-851         *)
(* (variant 2).  The variable `variant' fixes which one a behaviour runs.  *)
(*                                                                         *)
(* Part two models the search resolver of src/src/core/dl/                 *)
(* youtube_search.go (searchYouTube, searchViaAPI, searchViaYtDlp).        *)
(*                                                                         *)
(* All requests are for one media id; a file of the downloads directory    *)
(* is named by its extension.                                              *)
(***************************************************************************)
EXTENDS Naturals, Sequences, FiniteSets, TLC

VARIABLES
    variant,    \* 1 or 2: the implementation of YouTubeData in force
    ApiUrl,     \* YouTubeData.ApiUrl ("" when not configured)
    APIKey,     \* YouTubeData.APIKey ("" when not configured)
    files,      \* downloads directory: extension -> "absent" | "partial" | "complete"
    pc,         \* per request: the place the call stands at
    video,      \* per request: the `video' argument of downloadTrack
    cancelled,  \* per request: ctx.Done() is closed
    attempt,    \* per request: loop counter of the polling loop
    respData,   \* per request: the decoded songAPIResponse (reused across attempts)
    apiRet,     \* per request: what the remote backend returned
    ytRet,      \* per request: what downloadWithYtDlp returned
    result,     \* per request: what downloadTrack returned
    n,          \* per request: what the downloadTrack call has done so far
    cnt,        \* per request: what the running remote backend call has done
    hit0,       \* per request: the cache path present when downloadTrack started
    server,     \* the status payloads the remote API answers with
    content,    \* downloads directory: extension -> the file's chunks, each
                \* named after the request that wrote it
    lastw,      \* downloads directory: extension -> the request that wrote to it last
    off,        \* per request: the offset, in chunks, of its open destination
    query,      \* search: the query searchYouTube is called with
    apiResults, \* search: what searchViaAPI returned
    ytResults,  \* search: what searchViaYtDlp returned
    ytOut,      \* search: the output and the exit code of the search subprocess
    searchRet,  \* search: what searchYouTube returned
    calls,      \* search: calls of each backend, HTTP requests, subprocesses
    spc,        \* search: the place the searchYouTube call stands at
    op,         \* resolver: the method called: Search, GetInfo or GetTrack
    opc,        \* resolver: the place the method stands at
    ctxDone,    \* resolver: the ctx passed to the method is cancelled
    videoID,    \* resolver: GetInfo's local videoID
    opRet,      \* resolver: what the method returned
    CookiesPath,\* config.Conf.CookiesPath: the pool of cookie files
    Proxy,      \* config.Conf.Proxy ("" when not configured)
    job,        \* extractor arguments: the (videoID, video) BuildYtdlpParams is called with
    searchImpl, \* extractor arguments: the source file of the search in force
    built,      \* extractor arguments: the lists BuildYtdlpParams returned, in call order
    sargs,      \* extractor arguments: the argument lists of the search subprocesses
    norm,       \* links: the results of normalizeYouTubeURL applied to query again and again
    broadcastInProgress, \* broadcast: the package's atomic.Bool of that name
    broadcastCancelFlag, \* broadcast: the package's atomic.Bool of that name
    bpc,        \* broadcast: per /broadcast update, the place broadcastHandler stands at
    cpc,        \* broadcast: per /cancelbroadcast update, the place cancelBroadcastHandler stands at
    toPush,     \* broadcast: per /broadcast update, the targets not yet put on jobs
    inChan,     \* broadcast: per /broadcast update, the targets buffered in jobs
    wk,         \* broadcast: per /broadcast update and worker, the place the worker stands at
    tally,      \* broadcast: per /broadcast update, success, failed and total of its report
    accepted    \* broadcast: the /broadcast updates a /cancelbroadcast was accepted for

pmVars == <<CookiesPath, Proxy, job, searchImpl, built, sargs, norm>>
bcVars == <<broadcastInProgress, broadcastCancelFlag, bpc, cpc, toPush, inChan,
            wk, tally, accepted>>
dlCore == <<variant, ApiUrl, APIKey, files, pc, video, cancelled, attempt,
            respData, apiRet, ytRet, result, n, cnt, hit0, server, content,
            lastw, off, pmVars>>
dlVars == <<dlCore, bcVars>>
rsVars == <<op, opc, ctxDone, videoID, opRet>>
srVars == <<query, apiResults, ytResults, ytOut, searchRet, calls, spc, rsVars>>
vars == <<dlVars, srVars>>

----------------------------------------------------------------------------
(* Bounds and program constants *)

\* retry budget of the polling loop: `for attempt := 0; attempt < 10; attempt++'
MaxRetries == 10

Reqs == {"a", "b"}
Exts == {"mp3", "m4a", "webm", "mp4", "mkv"}

\* the cache probe's extension lists, in probe order
AudioProbe == <<"mp3", "m4a", "webm">>

\* a video probe list that shares no extension with the audio list
VideoProbe_NoWebm == <<"mp4", "mkv">>

VideoProbe == <<"mp4", "webm", "mkv">>

ProbeExts(v) == IF v THEN VideoProbe ELSE AudioProbe

\* a probe that takes only a finished file for a hit
Exists_OnlyFinished(fs, e) == fs[e] = "complete"

\* os.Stat(p) returns err == nil: the file is there, finished or not
Exists(fs, e) == fs[e] # "absent"

\* the first path of the probe list that exists, "" when none does
RECURSIVE FirstHitFrom(_, _, _)
FirstHitFrom(fs, exts, i) ==
    IF i > Len(exts) THEN ""
    ELSE IF Exists(fs, exts[i]) THEN exts[i]
    ELSE FirstHitFrom(fs, exts, i + 1)

FirstHit(fs, v) == FirstHitFrom(fs, ProbeExts(v), 1)

----------------------------------------------------------------------------
(* The remote API's answers *)

Absent == "<absent>"

\* status strings the API may send; "DONE" stands for any spelling that
\* strings.ToLower(strings.TrimSpace(.)) maps to "done"
Statuses == {"done", "DONE", "downloading", "error"}

\* a JSON payload: a field is a string or is not in the object
Payloads ==
    { [Status |-> s, Link |-> l, Format |-> f, Error |-> e, Message |-> m] :
        s \in Statuses \cup {Absent},
        l \in {"", "L", Absent},
        f \in {"webm", Absent},
        e \in {"E", Absent},
        m \in {"M", Absent} }

ZeroResp == [Status |-> "", Link |-> "", Format |-> "", Error |-> "", Message |-> ""]

\* a Decode into a record declared inside the loop: a field the object lacks
\* is empty
Decode_Fresh(rd, p) ==
    [f \in DOMAIN rd |-> IF p[f] = Absent THEN "" ELSE p[f]]

\* json.Decoder.Decode(&respData): a field of the object overwrites the
\* struct's field, a field the object lacks leaves it as it was
Decode(rd, p) ==
    [f \in DOMAIN rd |-> IF p[f] = Absent THEN rd[f] ELSE p[f]]

\* variant 2 decodes into the same struct and never reads Error or Message:
\* the two fields are left out of its state
Decode2(rd, p) ==
    [f \in DOMAIN rd |->
        IF f \in {"Error", "Message"} \/ p[f] = Absent THEN rd[f] ELSE p[f]]

\* strings.ToLower(strings.TrimSpace(s)) on the strings of the model
Normalize(s) == IF s = "DONE" THEN "done" ELSE s

\* Decision with the test of the link inverted
Decision_LinkTestInverted(rd) ==
    LET status == Normalize(rd.Status) IN
    CASE status = "done" -> IF rd.Link # "" THEN "nolink" ELSE "fetch"
      [] status = "downloading" -> "sleep"
      [] OTHER -> "fail"

\* Decision without the default branch: an unknown status waits and retries
Decision_RetryOnUnknown(rd) ==
    LET status == Normalize(rd.Status) IN
    CASE status = "done" -> IF rd.Link = "" THEN "nolink" ELSE "fetch"
      [] OTHER -> "sleep"

\* what an attempt of the polling loop does with the decoded record (variant 1):
\* the switch on status
Decision(rd) ==
    LET status == Normalize(rd.Status) IN
    CASE status = "done" -> IF rd.Link = "" THEN "nolink" ELSE "fetch"
      [] status = "downloading" -> "sleep"
      [] OTHER -> "fail"

\* variant 2: `if respJson.Status == "done" && respJson.Link != "" { break }'
Decision2(rd) ==
    IF rd.Status = "done" /\ rd.Link # "" THEN "fetch" ELSE "sleep"

\* the message of the "API error: %s" failure
ApiErrMsg(rd) ==
    IF rd.Error # "" THEN rd.Error
    ELSE IF rd.Message # "" THEN rd.Message
    ELSE "unexpected status"

\* the extension of the file the fetch writes
FetchFormat(rd, v) ==
    LET format == Normalize(rd.Format) IN
    IF format = "" THEN (IF v THEN "mp4" ELSE "mp3") ELSE format

\* variant 2, downloadFromURL: the default is mp3 in both modes
FetchFormat2(rd) == IF rd.Format = "" THEN "mp3" ELSE rd.Format

----------------------------------------------------------------------------
(* Return values *)

Pending == [path |-> "", err |-> "pending", msg |-> ""]
Ok(p) == [path |-> p, err |-> "", msg |-> ""]
Fail(e) == [path |-> "", err |-> e, msg |-> ""]
FailMsg(e, m) == [path |-> "", err |-> e, msg |-> m]

\* calls of the remote backend, calls of downloadWithYtDlp, subprocesses
\* started, and whether any HTTP request was sent
ZeroN == [remote |-> 0, ytdlp |-> 0, procs |-> 0, http |-> FALSE]

\* within one remote backend call: status requests sent (each has one
\* answer), sleeps begun, sleeps that ran their whole interval, GETs of the
\* link, the answers seen so far
\* ("dlOnly": every answer was a payload with status downloading;
\* "dlThenDone": those, then one payload with status done and a link;
\* "other": anything else), whether the fetch met an I/O fault, whether
\* the context was cancelled during a sleep, and the payload just decoded,
\* kept until the switch on the status has sent the call on to sleep or fetch
NoPayload == [Status |-> Absent, Link |-> Absent, Format |-> Absent,
              Error |-> Absent, Message |-> Absent]

ZeroCnt == [status |-> 0, sleeps |-> 0, slept |-> 0, fetch |-> 0,
            hist |-> "dlOnly", fault |-> FALSE, cancelInSleep |-> FALSE,
            got |-> NoPayload]

Inc(r, f) == [cnt EXCEPT ![r][f] = @ + 1]

\* the switch on the status is over and the call goes on
Cleared(r) == [cnt EXCEPT ![r].got = NoPayload]

\* what no step of a download call changes: the configuration, and the
\* variables of the argument builder and of the link functions
cfg == <<variant, ApiUrl, APIKey, server, pmVars, bcVars>>

\* the downloads directory
disk == <<files, content, lastw, off>>

\* the places of a call that lie inside the remote backend
RemotePcs == {"probe", "poll", "decide", "sleep", "fetch", "copy"}

----------------------------------------------------------------------------
(* downloadTrack *)

\* the guard in front of the remote backend: variant 1 asks for both the base
\* URL and the key in both modes, variant 2 only for the key in video mode
RemoteGuard(var, v, url, key) ==
    IF var = 2 /\ v THEN key # "" ELSE url # "" /\ key # ""

\* downloadTrack is entered: it calls the remote backend or goes to yt-dlp
downloadTrack(r) ==
    /\ pc[r] = "downloadTrack"
    /\ hit0' = [hit0 EXCEPT ![r] = FirstHit(files, video[r])]
    /\ IF RemoteGuard(variant, video[r], ApiUrl, APIKey)
       THEN /\ pc' = [pc EXCEPT ![r] = IF variant = 1 THEN "probe" ELSE "poll"]
            /\ n' = [n EXCEPT ![r].remote = @ + 1]
       ELSE /\ pc' = [pc EXCEPT ![r] = "ytdlp"]
            /\ n' = n
    /\ UNCHANGED <<cfg, disk, video, cancelled, attempt, respData, apiRet,
                   ytRet, result, cnt, srVars>>

\* the caller's context is cancelled (or its deadline passes) while the call runs
Cancel(r) ==
    /\ pc[r] \notin {"idle", "done"}
    /\ ~cancelled[r]
    /\ cancelled' = [cancelled EXCEPT ![r] = TRUE]
    /\ cnt' = [cnt EXCEPT ![r].cancelInSleep = (pc[r] = "sleep")]
    /\ UNCHANGED <<cfg, disk, pc, video, attempt, respData, apiRet, ytRet,
                   result, n, hit0, srVars>>

\* AfterRemote that hands an explicit API error to the caller
AfterRemote_ApiErrorSurfaced(ret) ==
    IF ret.err \in {"", "apiError"} THEN "return" ELSE "fallback"

\* downloadTrack on the remote backend's return value: `if filePath, err :=
\* y.downloadWithApi(...); err == nil { return filePath, nil }', else on to
\* downloadWithYtDlp
AfterRemote(ret) == IF ret.err = "" THEN "return" ELSE "fallback"

\* the remote backend has returned to downloadTrack
apiReturned(r) ==
    /\ pc[r] = "apiRet"
    /\ IF AfterRemote(apiRet[r]) = "return"
       THEN /\ result' = [result EXCEPT ![r] = apiRet[r]]
            /\ pc' = [pc EXCEPT ![r] = "done"]
       ELSE /\ result' = result
            /\ pc' = [pc EXCEPT ![r] = "ytdlp"]
    /\ cnt' = [cnt EXCEPT ![r] = ZeroCnt]
    /\ UNCHANGED <<cfg, disk, video, cancelled, attempt, respData, apiRet,
                   ytRet, n, hit0, srVars>>

\* downloadWithYtDlp has returned: downloadTrack returns what it returned
ytReturned(r) ==
    /\ pc[r] = "ytRet"
    /\ result' = [result EXCEPT ![r] = ytRet[r]]
    /\ pc' = [pc EXCEPT ![r] = "done"]
    /\ UNCHANGED <<cfg, disk, video, cancelled, attempt, respData, apiRet,
                   ytRet, n, cnt, hit0, srVars>>

----------------------------------------------------------------------------
(* Remote backend: downloadWithApi / downloadWithApiVideo *)

\* the remote backend returns `ret'; its locals go out of scope
ApiReturn(r, ret) ==
    /\ apiRet' = [apiRet EXCEPT ![r] = ret]
    /\ pc' = [pc EXCEPT ![r] = "apiRet"]
    /\ attempt' = [attempt EXCEPT ![r] = 0]
    /\ respData' = [respData EXCEPT ![r] = ZeroResp]

\* variant 1, step 1: the cache probe, then the configuration check
probe(r) ==
    /\ pc[r] = "probe"
    /\ LET p == FirstHit(files, video[r]) IN
       IF p # "" THEN ApiReturn(r, Ok(p))
       ELSE IF ApiUrl = "" \/ APIKey = "" THEN ApiReturn(r, Fail("notConfigured"))
       ELSE /\ pc' = [pc EXCEPT ![r] = "poll"]
            /\ UNCHANGED <<apiRet, attempt, respData>>
    /\ UNCHANGED <<cfg, disk, video, cancelled, ytRet, result, n, cnt, hit0,
                   srVars>>

\* the answers seen so far, after payload p
HistAfter(h, p) ==
    IF h = "dlOnly" /\ p.Status = "downloading" THEN "dlOnly"
    ELSE IF h = "dlOnly" /\ p.Status = "done" /\ p.Link = "L" THEN "dlThenDone"
    ELSE "other"

\* a status request was sent, and p came back (NoPayload: no payload)
Sent(r, h, p) ==
    /\ cnt' = [cnt EXCEPT ![r].status = @ + 1, ![r].hist = h, ![r].got = p]
    /\ n' = [n EXCEPT ![r].http = TRUE]

\* the loop condition off by one
LoopContinues_OffByOne(a) == a <= MaxRetries

\* the loop condition `attempt < 10'
LoopContinues(a) == a < MaxRetries

\* one status request of the polling loop and its answer
poll(r) ==
    /\ pc[r] = "poll"
    /\ LoopContinues(attempt[r])
    /\ IF cancelled[r]
       THEN \* client.Do fails on the closed context, nothing is sent
            /\ ApiReturn(r, Fail("requestFailed"))
            /\ UNCHANGED <<n, cnt>>
       ELSE \/ \* the request fails (no connection, timeout)
               /\ ApiReturn(r, Fail("requestFailed"))
               /\ Sent(r, "other", NoPayload)
            \/ \* a status code other than 200, or a body that does not decode
               /\ \E bad \in {"badStatus", "decodeFailed"} :
                     IF variant = 1
                     THEN ApiReturn(r, Fail(bad))
                     ELSE \* variant 2 checks neither and goes on with respJson as it is
                          /\ pc' = [pc EXCEPT ![r] = "decide"]
                          /\ UNCHANGED <<apiRet, attempt, respData>>
               /\ Sent(r, "other", NoPayload)
            \/ \* 200 and a payload
               \E p \in server :
                  /\ respData' = [respData EXCEPT ![r] =
                        IF variant = 1 THEN Decode(@, p) ELSE Decode2(@, p)]
                  /\ Sent(r, HistAfter(cnt[r].hist, p), p)
                  /\ pc' = [pc EXCEPT ![r] = "decide"]
                  /\ UNCHANGED <<apiRet, attempt>>
    /\ UNCHANGED <<cfg, disk, video, cancelled, ytRet, result, hit0, srVars>>

\* the decision taken on the decoded record
decide(r) ==
    /\ pc[r] = "decide"
    /\ LET d == IF variant = 1 THEN Decision(respData[r]) ELSE Decision2(respData[r]) IN
       CASE d = "fetch" ->
              /\ pc' = [pc EXCEPT ![r] = "fetch"]
              /\ cnt' = Cleared(r)
              /\ UNCHANGED <<apiRet, attempt, respData>>
         [] d = "nolink" ->
              /\ ApiReturn(r, Fail("noLink"))
              /\ cnt' = cnt
         [] d = "sleep" ->
              /\ pc' = [pc EXCEPT ![r] = "sleep"]
              /\ cnt' = [Cleared(r) EXCEPT ![r].sleeps = @ + 1]
              /\ UNCHANGED <<apiRet, attempt, respData>>
         [] OTHER ->
              /\ ApiReturn(r, FailMsg("apiError", ApiErrMsg(respData[r])))
              /\ cnt' = cnt
    /\ UNCHANGED <<cfg, disk, video, cancelled, ytRet, result, n, hit0, srVars>>

\* variant 1: `select { case <-ctx.Done(): ...; case <-time.After(d): }'
\* variant 2: time.Sleep(d)
SleepObservesCtx(var) == var = 1

\* the polling sleep ends: by the context, or by the timer
sleep(r) ==
    /\ pc[r] = "sleep"
    /\ IF SleepObservesCtx(variant) /\ cancelled[r]
       THEN /\ ApiReturn(r, Fail("ctx"))
            /\ cnt' = cnt
       ELSE /\ attempt' = [attempt EXCEPT ![r] = @ + 1]
            /\ cnt' = Inc(r, "slept")
            /\ pc' = [pc EXCEPT ![r] = "poll"]
            /\ UNCHANGED <<apiRet, respData>>
    /\ UNCHANGED <<cfg, disk, video, cancelled, ytRet, result, n, hit0, srVars>>

\* the loop ran off its end
exhausted(r) ==
    /\ pc[r] = "poll"
    /\ ~LoopContinues(attempt[r])
    /\ IF variant = 1 THEN ApiReturn(r, Fail("maxRetries"))
       ELSE IF respData[r].Link = "" THEN ApiReturn(r, Fail("apiFailed"))
       ELSE /\ pc' = [pc EXCEPT ![r] = "fetch"]
            /\ UNCHANGED <<apiRet, attempt, respData>>
    /\ UNCHANGED <<cfg, disk, video, cancelled, ytRet, result, n, cnt, hit0,
                   srVars>>

\* the chunks a media file is written in (io.Copy writes the body buffer by
\* buffer)
NChunks == 2

\* a file written from its first to its last chunk by w
Whole(w) == [i \in 1..NChunks |-> w]

\* write(2) on a descriptor opened with O_APPEND: the chunk goes to the end
WriteAt_Append(c, i, w) == Append(c, w)

\* write(2) of chunk i by w into a file of chunks c: the descriptor has its
\* own offset, and a write past the end leaves a hole
WriteAt(c, i, w) ==
    [j \in 1..(IF i > Len(c) THEN i ELSE Len(c)) |->
        IF j = i THEN w ELSE IF j <= Len(c) THEN c[j] ELSE "hole"]

\* os.Create(filePath): O_RDWR|O_CREATE|O_TRUNC, the file is emptied whoever
\* wrote it before, and the new descriptor starts at offset 0
CreateFile(r, e) ==
    /\ files' = [files EXCEPT ![e] = "partial"]
    /\ content' = [content EXCEPT ![e] = <<>>]
    /\ lastw' = [lastw EXCEPT ![e] = r]
    /\ off' = [off EXCEPT ![r] = 0]

\* io.Copy writes the next chunk at the offset of r's descriptor
WriteChunk(r, e) ==
    /\ content' = [content EXCEPT ![e] = WriteAt(@, off[r] + 1, r)]
    /\ off' = [off EXCEPT ![r] = @ + 1]
    /\ lastw' = [lastw EXCEPT ![e] = r]
    /\ files' = [files EXCEPT ![e] = IF off[r] + 1 = NChunks THEN "complete" ELSE @]

\* the yt-dlp subprocess of r leaves a file of extension e in the downloads
\* directory: a finished one, or what it had when it failed
WriteFile(r, e, st) ==
    /\ files' = [files EXCEPT ![e] = st]
    /\ content' = [content EXCEPT ![e] = IF st = "complete" THEN Whole(r) ELSE <<r>>]
    /\ lastw' = [lastw EXCEPT ![e] = r]
    /\ off' = off

\* an error path of io.Copy that removes the destination before it returns
FailedCopy_Removes(r, e) ==
    /\ files' = [files EXCEPT ![e] = "absent"]
    /\ content' = [content EXCEPT ![e] = <<>>]
    /\ UNCHANGED <<lastw, off>>

\* io.Copy returns an error: `return "", fmt.Errorf("failed to write file")',
\* the deferred out.Close() runs and nothing removes the destination
FailedCopy(r, e) == UNCHANGED disk

\* the destination of the fetch
Dest(r) == IF variant = 1 THEN FetchFormat(respData[r], video[r])
           ELSE FetchFormat2(respData[r])

\* the GET of the link was sent
Got(r, fault) ==
    /\ cnt' = [cnt EXCEPT ![r].fetch = @ + 1, ![r].fault = fault]
    /\ n' = [n EXCEPT ![r].http = TRUE]

\* DOWNLOAD: MkdirAll, GET of the link, os.Create of the destination
fetch(r) ==
    /\ pc[r] = "fetch"
    /\ \/ \* os.MkdirAll fails (variant 2 ignores that and goes on)
          /\ variant = 1
          /\ ApiReturn(r, Fail("mkdirFailed"))
          /\ cnt' = [cnt EXCEPT ![r].fault = TRUE]
          /\ UNCHANGED <<n, disk>>
       \/ \* the GET fails; that of variant 1 carries ctx, http.Get of variant 2 does not
          /\ ApiReturn(r, Fail("downloadFailed"))
          /\ IF variant = 1 /\ cancelled[r]
             THEN UNCHANGED <<n, cnt>>
             ELSE Got(r, TRUE)
          /\ UNCHANGED disk
       \/ \* the GET answers, os.Create fails
          /\ variant = 2 \/ ~cancelled[r]
          /\ ApiReturn(r, Fail("createFailed"))
          /\ Got(r, TRUE)
          /\ UNCHANGED disk
       \/ \* the GET answers, os.Create makes (or truncates) the destination
          /\ variant = 2 \/ ~cancelled[r]
          /\ CreateFile(r, Dest(r))
          /\ pc' = [pc EXCEPT ![r] = "copy"]
          /\ Got(r, FALSE)
          /\ UNCHANGED <<apiRet, attempt, respData>>
    /\ UNCHANGED <<cfg, video, cancelled, ytRet, result, hit0, srVars>>

\* io.Copy of the response body into the destination
copy(r) ==
    /\ pc[r] = "copy"
    /\ \/ \* a chunk of the body is written, more are to come
          /\ variant = 2 \/ ~cancelled[r]
          /\ off[r] + 1 < NChunks
          /\ WriteChunk(r, Dest(r))
          /\ UNCHANGED <<pc, apiRet, attempt, respData, cnt>>
       \/ \* the last chunk is written
          /\ variant = 2 \/ ~cancelled[r]
          /\ off[r] + 1 = NChunks
          /\ WriteChunk(r, Dest(r))
          /\ ApiReturn(r, Ok(Dest(r)))
          /\ cnt' = cnt
       \/ \* the stream breaks (or ctx is cancelled) and the partial file stays;
          \* variant 2 drops io.Copy's error and returns the file name
          /\ FailedCopy(r, Dest(r))
          /\ ApiReturn(r, IF variant = 1 THEN Fail("writeFailed") ELSE Ok(Dest(r)))
          /\ cnt' = [cnt EXCEPT ![r].fault = TRUE]
    /\ UNCHANGED <<cfg, video, cancelled, ytRet, result, n, hit0, srVars>>

----------------------------------------------------------------------------
(* Local extractor backend: downloadWithYtDlp *)

\* the containers yt-dlp's format selector can end in
YtExts(v) == IF v THEN {"mp4"} ELSE {"m4a", "webm"}

\* downloadWithYtDlp is called: BuildYtdlpParams, then cmd.Output (variant 2:
\* cmd.CombinedOutput) starts the subprocess, unless the context is closed
\* already, which makes Start return ctx.Err()
ytdlp(r) ==
    /\ pc[r] = "ytdlp"
    /\ IF cancelled[r]
       THEN /\ \E e \in {"ytTimedOut", "ytUnexpected"} :
                  ytRet' = [ytRet EXCEPT ![r] =
                               Fail(IF variant = 1 THEN e ELSE "ytFailed")]
            /\ pc' = [pc EXCEPT ![r] = "ytRet"]
            /\ n' = [n EXCEPT ![r].ytdlp = @ + 1]
       ELSE /\ pc' = [pc EXCEPT ![r] = "ytdlpRun"]
            /\ n' = [n EXCEPT ![r].ytdlp = @ + 1, ![r].procs = @ + 1]
            /\ ytRet' = ytRet
    /\ UNCHANGED <<cfg, disk, video, cancelled, attempt, respData, apiRet,
                   result, cnt, hit0, srVars>>

\* YtResult that trusts the printed path without os.Stat
YtResult_NoStat(var, exit, printed, fs) ==
    IF exit # 0 THEN Fail(IF var = 1 THEN "ytExit" ELSE "ytFailed")
    ELSE IF var = 1 /\ printed = "" THEN Fail("noOutputPath")
    ELSE Ok(printed)

\* what downloadWithYtDlp returns for an exited subprocess
YtResult(var, exit, printed, fs) ==
    IF exit # 0 THEN Fail(IF var = 1 THEN "ytExit" ELSE "ytFailed")
    ELSE IF var = 1 /\ printed = "" THEN Fail("noOutputPath")
    ELSE IF printed = "" \/ ~Exists(fs, printed)
         THEN Fail(IF var = 1 THEN "fileNotFound" ELSE "fileNotCreated")
    ELSE Ok(printed)

\* the subprocess exits: it may have written a file and printed a path
ytdlpExit(r) ==
    /\ pc[r] = "ytdlpRun"
    /\ \E exit \in {0, 1}, wrote \in YtExts(video[r]) \cup {"none"},
          printed \in YtExts(video[r]) \cup {""} :
          /\ cancelled[r] => exit = 1      \* CommandContext kills the process
          /\ exit = 1 => printed = ""
          /\ exit = 0 /\ wrote # "none" => printed = wrote
          /\ IF wrote = "none" THEN UNCHANGED disk
             ELSE WriteFile(r, wrote, IF exit = 0 THEN "complete" ELSE "partial")
          /\ ytRet' = [ytRet EXCEPT ![r] = YtResult(variant, exit, printed, files')]
    /\ pc' = [pc EXCEPT ![r] = "ytRet"]
    /\ UNCHANGED <<cfg, video, cancelled, attempt, respData, apiRet, result,
                   n, cnt, hit0, srVars>>

----------------------------------------------------------------------------
(* Links: clearQuery, normalizeYouTubeURL, extractVideoID, IsValid (variant 1) *)

\* longest query, in pieces, that the link functions are tried on
MaxLen == 4

\* the 11-character media ids of the model
Ids == {"id1", "id2"}

\* A string is a sequence of pieces.  The pieces are chosen so that each
\* substring the code looks for ("youtu.be/", "youtube.com/shorts/", "?", "#",
\* "&", white space) is one piece and cannot arise across two pieces; "abc" is
\* a run of three word characters, an id a run of eleven, so a run of word
\* characters is eleven long exactly when it is one id.
Pieces ==
    {"https://www.", "youtu.be/", "youtube.com/watch", "youtube.com/shorts/",
     "?", "v=", "#", "&", " ", "abc"} \cup Ids

SeqsUpTo(S, k) == UNION {[1..m -> S] : m \in 0..k}

Strings == SeqsUpTo(Pieces, MaxLen)

\* index of the first occurrence of piece c in s, 0 when there is none
RECURSIVE IndexFrom(_, _, _)
IndexFrom(s, c, i) ==
    IF i > Len(s) THEN 0
    ELSE IF s[i] = c THEN i
    ELSE IndexFrom(s, c, i + 1)

Index(s, c) == IndexFrom(s, c, 1)

\* strings.Contains(s, c)
Contains(s, c) == Index(s, c) # 0

\* strings.SplitN(s, c, 2)[0]
Before(s, c) == IF Contains(s, c) THEN SubSeq(s, 1, Index(s, c) - 1) ELSE s

\* strings.SplitN(s, c, 2)[1], for a string that contains c
After(s, c) == SubSeq(s, Index(s, c) + 1, Len(s))

\* strings.TrimSpace
RECURSIVE TrimLeft(_)
TrimLeft(s) == IF s # <<>> /\ Head(s) = " " THEN TrimLeft(Tail(s)) ELSE s

RECURSIVE TrimRight(_)
TrimRight(s) ==
    IF s # <<>> /\ s[Len(s)] = " " THEN TrimRight(SubSeq(s, 1, Len(s) - 1)) ELSE s

TrimSpace(s) == TrimRight(TrimLeft(s))

\* clearQuery: cut at the first "#", then at the first "&", then trim
clearQuery(q) == TrimSpace(Before(Before(q, "#"), "&"))

\* "https://www.youtube.com/watch?v=" + videoID
WatchURL(id) == <<"https://www.", "youtube.com/watch", "?", "v=">> \o id

\* normalizeYouTubeURL: the text after "youtu.be/" (else after
\* "youtube.com/shorts/") up to the first "?" and the first "#" is put into
\* the watch template; any other string is returned as it is
normalizeYouTubeURL(url) ==
    CASE Contains(url, "youtu.be/") ->
            WatchURL(Before(Before(After(url, "youtu.be/"), "?"), "#"))
      [] Contains(url, "youtube.com/shorts/") ->
            WatchURL(Before(Before(After(url, "youtube.com/shorts/"), "?"), "#"))
      [] OTHER -> url

\* `^(?:https?://)?(?:www\.)?': the optional scheme and host prefix
SkipPrefix(s) == IF s # <<>> /\ Head(s) = "https://www." THEN Tail(s) ELSE s

\* `([\w-]{11})(?:[&#?].*)?$' at position i of s: the id captured, "" when
\* the pattern does not match there; `ends' is the set of characters that
\* may follow the id
IdAt(s, i, ends) ==
    IF i <= Len(s) /\ s[i] \in Ids /\ (Len(s) = i \/ s[i + 1] \in ends)
    THEN s[i] ELSE ""

\* the three patterns of youtubePatterns: the capture, "" for no match
MatchYoutube(s) ==
    LET t == SkipPrefix(s) IN
    IF Len(t) >= 3 /\ SubSeq(t, 1, 3) = <<"youtube.com/watch", "?", "v=">>
    THEN IdAt(t, 4, {"&", "#", "?"}) ELSE ""

MatchYoutuBe(s) ==
    LET t == SkipPrefix(s) IN
    IF t # <<>> /\ Head(t) = "youtu.be/" THEN IdAt(t, 2, {"?", "#"}) ELSE ""

MatchShorts(s) ==
    LET t == SkipPrefix(s) IN
    IF t # <<>> /\ Head(t) = "youtube.com/shorts/" THEN IdAt(t, 2, {"?", "#"}) ELSE ""

\* the loop over y.Patterns: the patterns begin with different hosts, so at
\* most one of them matches and the map's order does not matter
FindSubmatch(s) ==
    IF MatchYoutube(s) # "" THEN MatchYoutube(s)
    ELSE IF MatchYoutuBe(s) # "" THEN MatchYoutuBe(s)
    ELSE MatchShorts(s)

\* extractVideoID: normalize, then the first pattern with a capture
extractVideoID(url) == FindSubmatch(normalizeYouTubeURL(url))

\* IsValid: the query is not empty and one of the patterns matches it
IsValid(q) == q # <<>> /\ FindSubmatch(q) # ""

----------------------------------------------------------------------------
(* Search resolver: searchYouTube, searchViaAPI, searchViaYtDlp *)

\* longest result list the remote search answers with, longest yt-dlp output
MaxApiLen == 2
MaxLines == 2

\* a cache.MusicTrack: its id and where its name comes from
ApiTrack(i) == [ID |-> i, Name |-> "name"]
YtTrack(i) == [ID |-> i, Name |-> "title"]

SPending == [list |-> <<>>, err |-> "pending"]
SOk(l) == [list |-> l, err |-> ""]
SFail(e) == [list |-> <<>>, err |-> e]

\* calls of searchViaAPI and of searchViaYtDlp, HTTP requests sent by
\* searchViaAPI, subprocesses started, calls of ApiData.GetTrack
ZeroCalls == [api |-> 0, ytdlp |-> 0, http |-> 0, procs |-> 0, track |-> 0]

\* the number of results the search asks the extractor for ("ytsearch5:")
SearchN == 5

\* what the remote search endpoint can answer; the request names no limit,
\* the length of the list is the endpoint's choice: one list is one longer
\* than SearchN
ApiAnswers ==
    {[kind |-> k, list |-> <<>>] : k \in {"neterr", "non200", "baddecode"}} \cup
    {[kind |-> "ok", list |-> l] :
        l \in SeqsUpTo({ApiTrack(i) : i \in Ids}, MaxApiLen)
              \cup {[i \in 1..(SearchN + 1) |-> ApiTrack("id1")]}}

\* searchViaAPI on a configured endpoint, by the endpoint's answer
searchViaAPIResult(ans) ==
    CASE ans.kind = "neterr" -> SFail("requestFailed")
      [] ans.kind = "non200" -> SFail("badStatus")
      [] ans.kind = "baddecode" -> SFail("invalidResponse")
      [] OTHER -> IF Len(ans.list) = 0 THEN SFail("noResults") ELSE SOk(ans.list)

\* searchViaAPI: "api disabled" without a request when the base URL or the
\* key is not set, else one GET of {base}/search; the request is made with
\* http.NewRequest and a client timeout, it does not carry the caller's ctx
searchViaAPI ==
    /\ spc = "searchYouTube"
    /\ IF ApiUrl = "" \/ APIKey = ""
       THEN /\ apiResults' = SFail("apiDisabled")
            /\ calls' = [calls EXCEPT !.api = @ + 1]
            /\ spc' = "apiRet"
       ELSE /\ apiResults' = apiResults
            /\ calls' = [calls EXCEPT !.api = @ + 1, !.http = @ + 1]
            /\ spc' = "apiWait"
    /\ UNCHANGED <<dlVars, query, ytResults, ytOut, searchRet, rsVars>>

\* the search endpoint answers, or the client's own 12 s timeout passes
searchViaAPIAnswer ==
    /\ spc = "apiWait"
    /\ \E ans \in ApiAnswers : apiResults' = searchViaAPIResult(ans)
    /\ spc' = "apiRet"
    /\ UNCHANGED <<dlVars, query, ytResults, ytOut, searchRet, calls, rsVars>>

\* ApiSucceeded that asks for more than one result
ApiSucceeded_NeedsTwo(res) == res.err = "" /\ Len(res.list) > 1

\* ApiSucceeded that does not look at the error
ApiSucceeded_ErrIgnored(res) == Len(res.list) >= 0

\* searchYouTube after searchViaAPI: `if apiErr == nil && len(results) > 0'
ApiSucceeded(res) == res.err = "" /\ Len(res.list) > 0

searchYouTube ==
    /\ spc = "apiRet"
    /\ IF ApiSucceeded(apiResults)
       THEN /\ searchRet' = apiResults
            /\ spc' = "done"
       ELSE /\ searchRet' = searchRet
            /\ spc' = "ytdlp"
    /\ UNCHANGED <<dlVars, query, apiResults, ytResults, ytOut, calls, rsVars>>

\* one line of the subprocess's combined output: a JSON record with an id, a
\* JSON record without one, a line that begins with `{' and does not
\* unmarshal, text that does not begin with `{', or a JSON record with an id
\* that is longer than the scanner's buffer (bufio.MaxScanTokenSize, 64 KiB)
Lines ==
    {[kind |-> k, id |-> i] : k \in {"rec", "long"}, i \in Ids} \cup
    {[kind |-> k, id |-> ""] : k \in {"noid", "bad", "noise"}}

\* the subprocess has not run
NoOutput == [lines |-> <<>>, exit |-> 0]

\* the scanner loop of searchViaYtDlp
RECURSIVE ParseYt(_)
ParseYt(lines) ==
    IF lines = <<>> THEN <<>>
    ELSE LET line == Head(lines) IN
         IF line.kind = "long" THEN <<>>          \* scanner.Scan() gives false
         ELSE IF line.kind = "noise" THEN ParseYt(Tail(lines))   \* no `{' prefix
         ELSE IF line.kind = "bad" THEN ParseYt(Tail(lines))     \* jsonErr != nil
         ELSE IF line.id = "" THEN ParseYt(Tail(lines))          \* v.ID == ""
         ELSE <<YtTrack(line.id)>> \o ParseYt(Tail(lines))

\* what searchViaYtDlp returns for the output and the exit code
searchViaYtDlpResult(lines, exit) ==
    LET tracks == ParseYt(lines) IN
    IF Len(tracks) > 0 THEN SOk(tracks)
    ELSE IF exit # 0 THEN SFail("ytdlpError")
    ELSE SFail("noYtdlpResults")

\* searchViaYtDlp starts the subprocess under its own context
\* (context.Background() with a 15 s timeout)
searchViaYtDlp ==
    /\ spc = "ytdlp"
    /\ calls' = [calls EXCEPT !.ytdlp = @ + 1, !.procs = @ + 1]
    /\ spc' = "ytdlpRun"
    /\ UNCHANGED <<dlVars, query, apiResults, ytResults, ytOut, searchRet, rsVars>>

\* the subprocess exits (or is killed by the 15 s timeout); searchYouTube
\* returns what searchViaYtDlp returns
searchViaYtDlpExit ==
    /\ spc = "ytdlpRun"
    /\ \E lines \in SeqsUpTo(Lines, MaxLines), exit \in {0, 1} :
          /\ ytOut' = [lines |-> lines, exit |-> exit]
          /\ ytResults' = searchViaYtDlpResult(lines, exit)
          /\ searchRet' = ytResults'
    /\ spc' = "done"
    /\ UNCHANGED <<dlVars, query, apiResults, calls, rsVars>>

----------------------------------------------------------------------------
(* Search entry and metadata resolver: Search, GetInfo, GetTrack (variant 1) *)

\* SearchReturn that drops searchYouTube's error
SearchReturn_ErrSwallowed(res) ==
    IF res.err # "" THEN SOk(<<>>)
    ELSE IF Len(res.list) = 0 THEN SFail("notFound")
    ELSE SOk(res.list)

\* Search on what searchYouTube returned
SearchReturn(res) ==
    IF res.err # "" THEN SFail(res.err)
    ELSE IF Len(res.list) = 0 THEN SFail("notFound")
    ELSE SOk(res.list)

\* Search calls searchYouTube(y.Query); the ctx it was given is not passed on
Search ==
    /\ opc = "entry" /\ op = "Search"
    /\ opc' = "search"
    /\ spc' = "searchYouTube"
    /\ UNCHANGED <<dlVars, query, apiResults, ytResults, ytOut, searchRet, calls,
                   op, ctxDone, videoID, opRet>>

\* FirstWithID that takes the first candidate, whatever its id
FirstWithID_FirstCandidate(tracks, id) ==
    IF tracks = <<>> THEN <<>> ELSE <<Head(tracks)>>

\* `for _, track := range tracks { if track.ID == videoID { return ... } }'
RECURSIVE FirstWithID(_, _)
FirstWithID(tracks, id) ==
    IF tracks = <<>> THEN <<>>
    ELSE IF Head(tracks).ID = id THEN <<Head(tracks)>>
    ELSE FirstWithID(Tail(tracks), id)

\* GetInfo on what searchYouTube returned
GetInfoReturn(res, id) ==
    IF res.err # "" THEN SFail(res.err)
    ELSE IF FirstWithID(res.list, id) = <<>> THEN SFail("notFound")
    ELSE SOk(FirstWithID(res.list, id))

\* GetTrack on what GetInfo returned: the TrackInfo of getInfo.Results[0]
GetTrackReturn(info) ==
    IF info.err # "" THEN info
    ELSE IF Len(info.list) = 0 THEN SFail("notFound")
    ELSE SOk(<<info.list[1]>>)

\* GetInfo up to its call of searchYouTube; GetTrack calls it at "getInfo"
GetInfo ==
    /\ \/ opc = "entry" /\ op = "GetInfo"
       \/ opc = "getInfo"
    /\ IF ~IsValid(query)
       THEN /\ opRet' = SFail("invalidLink")
            /\ opc' = "done"
            /\ UNCHANGED <<query, videoID, spc>>
       ELSE /\ query' = normalizeYouTubeURL(query)
            /\ videoID' = extractVideoID(query')
            /\ IF videoID' = ""
               THEN /\ opRet' = SFail("noVideoID")
                    /\ opc' = "done"
                    /\ spc' = spc
               ELSE /\ opRet' = opRet
                    /\ opc' = "search"
                    /\ spc' = "searchYouTube"
    /\ UNCHANGED <<dlVars, apiResults, ytResults, ytOut, searchRet, calls, op, ctxDone>>

\* GetTrack up to its first call: the checks, then ApiData.GetTrack when the
\* API is configured, else GetInfo
GetTrack ==
    /\ opc = "entry" /\ op = "GetTrack"
    /\ IF query = <<>>
       THEN /\ opRet' = SFail("emptyQuery")
            /\ opc' = "done"
            /\ calls' = calls
       ELSE IF ~IsValid(query)
       THEN /\ opRet' = SFail("invalidLink")
            /\ opc' = "done"
            /\ calls' = calls
       ELSE IF ApiUrl # "" /\ APIKey # ""
       THEN /\ opc' = "apiTrack"
            /\ calls' = [calls EXCEPT !.track = @ + 1]
            /\ opRet' = opRet
       ELSE /\ opc' = "getInfo"
            /\ UNCHANGED <<calls, opRet>>
    /\ UNCHANGED <<dlVars, query, apiResults, ytResults, ytOut, searchRet, spc, op,
                   ctxDone, videoID>>

\* NewApiData(y.Query).GetTrack(ctx) returns: a TrackInfo, which GetTrack
\* returns, or an error, after which GetTrack goes on to GetInfo
ApiDataGetTrack ==
    /\ opc = "apiTrack"
    /\ \/ /\ ~ctxDone
          /\ \E i \in Ids : opRet' = SOk(<<ApiTrack(i)>>)
          /\ opc' = "done"
       \/ /\ opc' = "getInfo"
          /\ opRet' = opRet
    /\ UNCHANGED <<dlVars, query, apiResults, ytResults, ytOut, searchRet, calls, spc,
                   op, ctxDone, videoID>>

\* searchYouTube has returned to Search or GetInfo, which returns
\* (GetTrack after GetInfo)
resolveReturn ==
    /\ opc = "search" /\ spc = "done"
    /\ opRet' = CASE op = "Search" -> SearchReturn(searchRet)
                  [] op = "GetInfo" -> GetInfoReturn(searchRet, videoID)
                  [] OTHER -> GetTrackReturn(GetInfoReturn(searchRet, videoID))
    /\ opc' = "done"
    /\ UNCHANGED <<dlVars, query, apiResults, ytResults, ytOut, searchRet, calls, spc,
                   op, ctxDone, videoID>>

\* the ctx given to Search, GetInfo or GetTrack is cancelled while it runs
cancelCtx ==
    /\ opc \notin {"off", "done"}
    /\ ~ctxDone
    /\ ctxDone' = TRUE
    /\ UNCHANGED <<dlVars, query, apiResults, ytResults, ytOut, searchRet, calls, spc,
                   op, opc, videoID, opRet>>

----------------------------------------------------------------------------
(* Arguments of the local extractor: BuildYtdlpParams, getCookieFile, and the
   argument list of the search subprocess *)

\* largest cookie pool, and number of calls of each builder in a behaviour
MaxPool == 2
MaxCalls == 2

Cookies == {"cookies1.txt", "cookies2.txt"}

\* getCookieFile that gives up when the random number cannot be drawn
getCookieFile_EmptyOnRandErr(cookiesPath) ==
    {""} \cup {cookiesPath[i] : i \in 1..Len(cookiesPath)}

\* getCookieFile: the values it can return: "" for an empty pool, else
\* cookiesPath[n] for a random n, or cookiesPath[0] when rand.Int fails
getCookieFile(cookiesPath) ==
    IF Len(cookiesPath) = 0 THEN {""}
    ELSE {cookiesPath[1]} \cup {cookiesPath[i] : i \in 1..Len(cookiesPath)}

\* "https://www.youtube.com/watch?v=" + videoID
VideoURL(id) ==
    IF id = "id1" THEN "https://www.youtube.com/watch?v=id1"
    ELSE "https://www.youtube.com/watch?v=id2"

\* "ytsearch5:" + query
SearchTerm(q) == IF q = "id1" THEN "ytsearch5:id1" ELSE "ytsearch5:id2"

\* the fixed head of the argument list (variant 1)
BaseParams ==
    <<"yt-dlp", "--no-warnings", "--quiet", "--geo-bypass", "--retries", "2",
      "--continue", "--no-part", "--concurrent-fragments", "3",
      "--socket-timeout", "10", "--throttled-rate", "100K", "--retry-sleep", "1",
      "--no-write-thumbnail", "--no-write-info-json", "--no-embed-metadata",
      "--no-embed-chapters", "--no-embed-subs",
      "--extractor-args", "youtube:player_js_version=actual",
      "-o", "{DownloadsDir}/%(id)s.%(ext)s">>

\* the fixed head of the argument list (variant 2)
BaseParams2 ==
    <<"yt-dlp", "--no-warnings", "--quiet", "--geo-bypass",
      "-o", "{DownloadsDir}/%(id)s.%(ext)s">>

\* `-f' and what goes before it
FormatParams(v) ==
    IF v
    THEN <<"--merge-output-format", "mp4", "-f",
           "bestvideo[ext=mp4][height<=1080]+bestaudio[ext=m4a]/best[ext=mp4][height<=1080]">>
    ELSE <<"-f", "bestaudio[ext=m4a]/bestaudio[ext=mp4]/bestaudio[ext=webm]/bestaudio/best">>

FormatParams2(v) ==
    <<"-f", IF v THEN "bestvideo[ext=mp4]+bestaudio[ext=m4a]/best" ELSE "bestaudio/best">>

\* CookieOrProxy with `if' in the place of `else if'
CookieOrProxy_Both(cookieFile, proxy) ==
    (IF cookieFile # "" THEN <<"--cookies", cookieFile>> ELSE <<>>) \o
    (IF proxy # "" THEN <<"--proxy", proxy>> ELSE <<>>)

\* `if cookieFile != "" { --cookies } else if Proxy != "" { --proxy }'
CookieOrProxy(cookieFile, proxy) ==
    IF cookieFile # "" THEN <<"--cookies", cookieFile>>
    ELSE IF proxy # "" THEN <<"--proxy", proxy>>
    ELSE <<>>

\* BuildYtdlpParams, given what getCookieFile returned
BuildYtdlpParams(var, id, v, cookieFile, proxy) ==
    IF var = 1
    THEN BaseParams \o FormatParams(v) \o CookieOrProxy(cookieFile, proxy) \o
         <<VideoURL(id), "--print", "after_move:filepath">>
    ELSE BaseParams2 \o FormatParams2(v) \o
         <<VideoURL(id), "--print", "after_move:filepath">>

\* the cookie file the search can attach: youtube_search.go takes
\* config.Conf.CookiesPath[0], the earlier searchYouTube of part_001 calls
\* getCookieFile
SearchCookie(impl, cookiesPath) ==
    IF impl = "part_001" THEN getCookieFile(cookiesPath)
    ELSE IF Len(cookiesPath) > 0 THEN {cookiesPath[1]} ELSE {""}

\* the arguments of the search subprocess
SearchArgs(impl, q, cookieFile, proxy) ==
    IF impl = "part_001"
    THEN <<"-j", "--no-playlist">> \o CookieOrProxy(cookieFile, proxy) \o
         <<SearchTerm(q)>>
    ELSE <<"-j", "--no-warnings", "--no-playlist", SearchTerm(q)>> \o
         CookieOrProxy(cookieFile, proxy)

\* what follows --cookies and --proxy in an argument list
Attached(args) ==
    {<<args[i], args[i + 1]>> : i \in {k \in 1..(Len(args) - 1) :
                                         args[k] \in {"--cookies", "--proxy"}}}

\* downloadWithYtDlp calls BuildYtdlpParams(videoID, video)
buildParams ==
    /\ Len(built) < MaxCalls
    /\ \E c \in getCookieFile(CookiesPath) :
          built' = Append(built,
                     BuildYtdlpParams(variant, job.id, job.video, c, Proxy))
    /\ UNCHANGED <<variant, ApiUrl, APIKey, files, pc, video, cancelled,
                   attempt, respData, apiRet, ytRet, result, n, cnt, hit0,
                   server, content, lastw, off, CookiesPath, Proxy, job, searchImpl, sargs, norm, srVars, bcVars>>

\* the search builds the arguments of its subprocess
buildSearchArgs ==
    /\ Len(sargs) < MaxCalls
    /\ \E c \in SearchCookie(searchImpl, CookiesPath) :
          sargs' = Append(sargs, SearchArgs(searchImpl, job.id, c, Proxy))
    /\ UNCHANGED <<variant, ApiUrl, APIKey, files, pc, video, cancelled,
                   attempt, respData, apiRet, ytRet, result, n, cnt, hit0,
                   server, content, lastw, off, CookiesPath, Proxy, job, searchImpl, built, norm, srVars, bcVars>>

----------------------------------------------------------------------------
(* Specification of one acquisition call *)

\* no download is running and the downloads directory is empty
NoDownload ==
    /\ files = [e \in Exts |-> "absent"]
    /\ content = [e \in Exts |-> <<>>]
    /\ lastw = [e \in Exts |-> "none"]
    /\ off = [r \in Reqs |-> 0]
    /\ server = Payloads
    /\ pc = [r \in Reqs |-> "idle"]
    /\ video = [r \in Reqs |-> FALSE]
    /\ cancelled = [r \in Reqs |-> FALSE]
    /\ attempt = [r \in Reqs |-> 0]
    /\ respData = [r \in Reqs |-> ZeroResp]
    /\ apiRet = [r \in Reqs |-> Pending]
    /\ ytRet = [r \in Reqs |-> Pending]
    /\ result = [r \in Reqs |-> Pending]
    /\ n = [r \in Reqs |-> ZeroN]
    /\ cnt = [r \in Reqs |-> ZeroCnt]
    /\ hit0 = [r \in Reqs |-> ""]

\* the /broadcast and the /cancelbroadcast updates the bot receives, and the
\* workers of one broadcast (20 in the code)
Bs == {"b1", "b2"}
Cs == {"c1"}
NTargets == 2
NWorkers == 2

\* no broadcast command was received: both atomic.Bool hold their zero value
NoBroadcast ==
    /\ broadcastInProgress = FALSE
    /\ broadcastCancelFlag = FALSE
    /\ bpc = [h \in Bs |-> "idle"]
    /\ cpc = [c \in Cs |-> "idle"]
    /\ toPush = [h \in Bs |-> 0]
    /\ inChan = [h \in Bs |-> 0]
    /\ wk = [h \in Bs |-> [w \in 1..NWorkers |-> [st |-> "off", late |-> FALSE]]]
    /\ tally = [h \in Bs |-> [success |-> 0, failed |-> 0, total |-> 0]]
    /\ accepted = {}

\* the downloads directory when the call starts: empty, or one finished file
InitFiles ==
    {[e \in Exts |-> "absent"]} \cup
    {[e \in Exts |-> IF e = x THEN "complete" ELSE "absent"] :
        x \in {"mp3", "webm", "mp4"}}

\* no search is running
NoParams ==
    /\ CookiesPath = <<>>
    /\ Proxy = ""
    /\ job = [id |-> "id1", video |-> FALSE]
    /\ searchImpl = "youtube_search.go"
    /\ built = <<>>
    /\ sargs = <<>>
    /\ norm = <<>>

NoResolve ==
    /\ op = "none"
    /\ opc = "off"
    /\ ctxDone = FALSE
    /\ videoID = ""
    /\ opRet = SPending

NoSearch ==
    /\ query = <<>>
    /\ NoResolve
    /\ apiResults = SPending
    /\ ytResults = SPending
    /\ ytOut = NoOutput
    /\ searchRet = SPending
    /\ calls = ZeroCalls
    /\ spc = "off"

Init ==
    /\ variant \in {1, 2}
    /\ ApiUrl \in {"", "http://api"}
    /\ APIKey \in {"", "key"}
    /\ files \in InitFiles
    /\ content = [e \in Exts |-> IF Exists(files, e) THEN Whole("old") ELSE <<>>]
    /\ lastw = [e \in Exts |-> IF Exists(files, e) THEN "old" ELSE "none"]
    /\ off = [r \in Reqs |-> 0]
    /\ server = Payloads
    /\ pc = [r \in Reqs |-> IF r = "a" THEN "downloadTrack" ELSE "idle"]
    /\ video \in {[r \in Reqs |-> v] : v \in BOOLEAN}
    /\ cancelled = [r \in Reqs |-> FALSE]
    /\ attempt = [r \in Reqs |-> 0]
    /\ respData = [r \in Reqs |-> ZeroResp]
    /\ apiRet = [r \in Reqs |-> Pending]
    /\ ytRet = [r \in Reqs |-> Pending]
    /\ result = [r \in Reqs |-> Pending]
    /\ n = [r \in Reqs |-> ZeroN]
    /\ cnt = [r \in Reqs |-> ZeroCnt]
    /\ hit0 = [r \in Reqs |-> ""]
    /\ NoParams
    /\ NoBroadcast
    /\ NoSearch

Next ==
    \E r \in Reqs :
        \/ downloadTrack(r)
        \/ Cancel(r)
        \/ apiReturned(r)
        \/ probe(r)
        \/ poll(r)
        \/ decide(r)
        \/ sleep(r)
        \/ exhausted(r)
        \/ fetch(r)
        \/ copy(r)
        \/ ytdlp(r)
        \/ ytdlpExit(r)
        \/ ytReturned(r)

Spec == Init /\ [][Next]_vars

----------------------------------------------------------------------------
(* Specification of one search *)

InitSearch ==
    /\ variant = 1
    /\ ApiUrl \in {"", "http://api"}
    /\ APIKey \in {"", "key"}
    /\ NoDownload
    /\ NoParams
    /\ NoBroadcast
    /\ query \in {<<"abc">>, <<"youtu.be/", "id1">>}
    /\ NoResolve
    /\ apiResults = SPending
    /\ ytResults = SPending
    /\ ytOut = NoOutput
    /\ searchRet = SPending
    /\ calls = ZeroCalls
    /\ spc = "searchYouTube"

NextSearch ==
    \/ searchViaAPI
    \/ searchViaAPIAnswer
    \/ searchYouTube
    \/ searchViaYtDlp
    \/ searchViaYtDlpExit

SpecSearch == InitSearch /\ [][NextSearch]_vars

----------------------------------------------------------------------------
(* Specification of one Search, GetInfo or GetTrack call *)

\* the raw queries NewYouTubeData is given: every string of at most one piece,
\* links of the three shapes, links with parameters, fragments and white
\* space around them, free text, free text that holds a link, and a watch
\* link whose parameters hold a short host
RawQueries ==
    SeqsUpTo(Pieces, 1) \cup
    { <<"youtu.be/", "id1">>,
      <<"https://www.", "youtu.be/", "id2", "?", "abc">>,
      <<"https://www.", "youtube.com/watch", "?", "v=", "id1">>,
      <<"youtube.com/watch", "?", "v=", "id2", "&", "abc">>,
      <<"youtube.com/shorts/", "id1", "#", "abc">>,
      <<" ", "youtu.be/", "id1", " ">>,
      <<"abc", " ", "abc">>,
      <<"abc", " ", "youtu.be/", "id1">>,
      <<"abc", "youtube.com/shorts/", "id2">>,
      <<"youtu.be/", "abc">>,
      <<"youtube.com/watch", "?", "v=", "id1", "?", "youtu.be/", "abc">>,
      <<"youtube.com/watch", "?", "v=", "id1", "?", "youtu.be/", "id2">> }

InitResolve ==
    /\ variant = 1
    /\ ApiUrl \in {"", "http://api"}
    /\ APIKey \in {"", "key"}
    /\ NoDownload
    /\ NoParams
    /\ NoBroadcast
    /\ query \in {clearQuery(q) : q \in RawQueries}
    /\ apiResults = SPending
    /\ ytResults = SPending
    /\ ytOut = NoOutput
    /\ searchRet = SPending
    /\ calls = ZeroCalls
    /\ spc = "off"
    /\ op \in {"Search", "GetInfo", "GetTrack"}
    /\ opc = "entry"
    /\ ctxDone = FALSE
    /\ videoID = ""
    /\ opRet = SPending

NextResolve ==
    \/ Search
    \/ GetInfo
    \/ GetTrack
    \/ ApiDataGetTrack
    \/ searchViaAPI
    \/ searchViaAPIAnswer
    \/ searchYouTube
    \/ searchViaYtDlp
    \/ searchViaYtDlpExit
    \/ resolveReturn
    \/ cancelCtx

SpecResolve == InitResolve /\ [][NextResolve]_vars

----------------------------------------------------------------------------
(* Specification of the argument builders *)

InitParams ==
    /\ variant \in {1, 2}
    /\ ApiUrl = ""
    /\ APIKey = ""
    /\ NoDownload
    /\ NoSearch
    /\ CookiesPath \in SeqsUpTo(Cookies, MaxPool)
    /\ Proxy \in {"", "socks5://proxy"}
    /\ job \in [id : Ids, video : BOOLEAN]
    /\ searchImpl \in {"youtube_search.go", "part_001"}
    /\ built = <<>>
    /\ sargs = <<>>
    /\ norm = <<>>
    /\ NoBroadcast

NextParams ==
    \/ buildParams
    \/ buildSearchArgs

SpecParams == InitParams /\ [][NextParams]_vars

----------------------------------------------------------------------------
(* Specification of the link functions *)

\* normalizeYouTubeURL is applied to the query, then to its own result
normalize ==
    /\ Len(norm) < 2
    /\ norm' = Append(norm, normalizeYouTubeURL(IF norm = <<>> THEN query
                                                ELSE norm[Len(norm)]))
    /\ UNCHANGED <<variant, ApiUrl, APIKey, files, pc, video, cancelled,
                   attempt, respData, apiRet, ytRet, result, n, cnt, hit0,
                   server, content, lastw, off, CookiesPath, Proxy, job, searchImpl, built, sargs, srVars, bcVars>>

InitLink ==
    /\ variant = 1
    /\ ApiUrl = ""
    /\ APIKey = ""
    /\ NoDownload
    /\ NoParams
    /\ NoBroadcast
    /\ NoResolve
    /\ query \in Strings
    /\ apiResults = SPending
    /\ ytResults = SPending
    /\ ytOut = NoOutput
    /\ searchRet = SPending
    /\ calls = ZeroCalls
    /\ spc = "off"

SpecLink == InitLink /\ [][normalize]_vars

\* longest text, in pieces, after the '?', '#' or '&' that follows the id
MaxSuffix == 2

\* the links of one shape: the host, with or without the scheme and host
\* prefix, an id, and no suffix or one that begins with a character of `ends'
Shape(host, ends) ==
    { pre \o host \o <<id>> \o suf :
        pre \in {<<>>, <<"https://www.">>},
        id \in Ids,
        suf \in {<<>>} \cup { <<c>> \o t : c \in ends,
                                          t \in SeqsUpTo(Pieces, MaxSuffix) } }

\* the three link shapes the patterns recognize
Links ==
    Shape(<<"youtube.com/watch", "?", "v=">>, {"&", "#", "?"})
        \cup Shape(<<"youtu.be/">>, {"?", "#"})
        \cup Shape(<<"youtube.com/shorts/">>, {"?", "#"})

\* extractVideoID is applied to the normalized link
extract ==
    /\ norm # <<>>
    /\ op = "none"
    /\ op' = "extractVideoID"
    /\ videoID' = extractVideoID(norm[1])
    /\ UNCHANGED <<dlVars, query, apiResults, ytResults, ytOut, searchRet, calls, spc,
                   opc, ctxDone, opRet>>

InitShape ==
    /\ variant = 1
    /\ ApiUrl = ""
    /\ APIKey = ""
    /\ NoDownload
    /\ NoParams
    /\ NoBroadcast
    /\ NoResolve
    /\ query \in Links
    /\ apiResults = SPending
    /\ ytResults = SPending
    /\ ytOut = NoOutput
    /\ searchRet = SPending
    /\ calls = ZeroCalls
    /\ spc = "off"

NextShape ==
    \/ normalize
    \/ extract

SpecShape == InitShape /\ [][NextShape]_vars

----------------------------------------------------------------------------
(* Two simultaneous downloads of the same media id *)

\* what the remote API answers with while the two requests run: the audio is
\* ready (no format named, so the destination is {id}.mp3), it is still being
\* made, or it has failed
RaceAnswers ==
    { [Status |-> "done", Link |-> "L", Format |-> Absent, Error |-> Absent,
       Message |-> Absent],
      [Status |-> "downloading", Link |-> Absent, Format |-> Absent,
       Error |-> Absent, Message |-> Absent],
      [Status |-> "error", Link |-> Absent, Format |-> Absent, Error |-> "E",
       Message |-> Absent] }

\* two goroutines call downloadTrack for the same media id in audio mode on
\* an empty downloads directory; nothing in YouTubeData or in the package
\* keeps one from running while the other does
InitRace ==
    /\ variant = 1
    /\ \E c \in BOOLEAN :
          /\ ApiUrl = IF c THEN "http://api" ELSE ""
          /\ APIKey = IF c THEN "key" ELSE ""
    /\ files = [e \in Exts |-> "absent"]
    /\ content = [e \in Exts |-> <<>>]
    /\ lastw = [e \in Exts |-> "none"]
    /\ off = [r \in Reqs |-> 0]
    /\ server = RaceAnswers
    /\ pc = [r \in Reqs |-> "downloadTrack"]
    /\ video = [r \in Reqs |-> FALSE]
    /\ cancelled = [r \in Reqs |-> FALSE]
    /\ attempt = [r \in Reqs |-> 0]
    /\ respData = [r \in Reqs |-> ZeroResp]
    /\ apiRet = [r \in Reqs |-> Pending]
    /\ ytRet = [r \in Reqs |-> Pending]
    /\ result = [r \in Reqs |-> Pending]
    /\ n = [r \in Reqs |-> ZeroN]
    /\ cnt = [r \in Reqs |-> ZeroCnt]
    /\ hit0 = [r \in Reqs |-> ""]
    /\ NoParams
    /\ NoBroadcast
    /\ NoSearch

\* the steps of the two calls interleave freely
NextRace ==
    \E r \in Reqs :
        \/ downloadTrack(r)
        \/ Cancel(r)
        \/ apiReturned(r)
        \/ probe(r)
        \/ poll(r)
        \/ decide(r)
        \/ sleep(r)
        \/ exhausted(r)
        \/ fetch(r)
        \/ copy(r)
        \/ ytdlp(r)
        \/ ytdlpExit(r)
        \/ ytReturned(r)

SpecRace == InitRace /\ [][NextRace]_vars

----------------------------------------------------------------------------
(* An audio and a video download of the same media id *)

\* what the remote API answers with: the media is ready in a webm container,
\* it is still being made, or it has failed
ModeAnswers ==
    { [Status |-> "done", Link |-> "L", Format |-> "webm", Error |-> Absent,
       Message |-> Absent],
      [Status |-> "downloading", Link |-> Absent, Format |-> Absent,
       Error |-> Absent, Message |-> Absent],
      [Status |-> "error", Link |-> Absent, Format |-> Absent, Error |-> "E",
       Message |-> Absent] }

\* downloadTrack is called for the same media id once in audio and once in
\* video mode, with the remote API configured, on an empty downloads directory
InitModes ==
    /\ variant = 1
    /\ ApiUrl = "http://api"
    /\ APIKey = "key"
    /\ files = [e \in Exts |-> "absent"]
    /\ content = [e \in Exts |-> <<>>]
    /\ lastw = [e \in Exts |-> "none"]
    /\ off = [r \in Reqs |-> 0]
    /\ server = ModeAnswers
    /\ pc = [r \in Reqs |-> "downloadTrack"]
    /\ \E v \in BOOLEAN : video = [r \in Reqs |-> IF r = "a" THEN v ELSE ~v]
    /\ cancelled = [r \in Reqs |-> FALSE]
    /\ attempt = [r \in Reqs |-> 0]
    /\ respData = [r \in Reqs |-> ZeroResp]
    /\ apiRet = [r \in Reqs |-> Pending]
    /\ ytRet = [r \in Reqs |-> Pending]
    /\ result = [r \in Reqs |-> Pending]
    /\ n = [r \in Reqs |-> ZeroN]
    /\ cnt = [r \in Reqs |-> ZeroCnt]
    /\ hit0 = [r \in Reqs |-> ""]
    /\ NoParams
    /\ NoBroadcast
    /\ NoSearch

\* the steps of the two calls interleave freely; neither is cancelled
NextModes ==
    \E r \in Reqs :
        \/ downloadTrack(r)
        \/ apiReturned(r)
        \/ probe(r)
        \/ poll(r)
        \/ decide(r)
        \/ sleep(r)
        \/ exhausted(r)
        \/ fetch(r)
        \/ copy(r)
        \/ ytdlp(r)
        \/ ytdlpExit(r)
        \/ ytReturned(r)

SpecModes == InitModes /\ [][NextModes]_vars

----------------------------------------------------------------------------
(* The broadcast handlers (src/handlers/broadcast.go). The library runs the
   handler of every update in a goroutine of its own, so the handlers of
   several commands interleave at their atomic loads and stores. *)

\* the broadcast h has started its workers and they have not all returned
WorkersRunning(h) == bpc[h] \in {"push", "wait"}

\* broadcastHandler, the in-progress check: Load, reply and return when set
bcCheck(h) ==
    /\ bpc[h] = "idle"
    /\ bpc' = [bpc EXCEPT ![h] = IF broadcastInProgress THEN "rejected" ELSE "store"]
    /\ UNCHANGED <<dlCore, srVars, broadcastInProgress, broadcastCancelFlag, cpc,
                   toPush, inChan, wk, tally, accepted>>

\* broadcastInProgress.Store(true), and the deferred Store(false) is registered
bcStore(h) ==
    /\ bpc[h] = "store"
    /\ broadcastInProgress' = TRUE
    /\ bpc' = [bpc EXCEPT ![h] = "parse"]
    /\ UNCHANGED <<dlCore, srVars, broadcastCancelFlag, cpc, toPush, inChan, wk,
                   tally, accepted>>

\* the flags and the text are parsed: an invalid flag, or neither a text nor
\* a replied message, replies and returns
bcParse(h) ==
    /\ bpc[h] = "parse"
    /\ \E valid \in BOOLEAN :
           bpc' = [bpc EXCEPT ![h] = IF valid THEN "clear" ELSE "defer"]
    /\ UNCHANGED <<dlCore, srVars, broadcastInProgress, broadcastCancelFlag, cpc,
                   toPush, inChan, wk, tally, accepted>>

\* "Fresh broadcast -> clear cancellation flag"
bcClear(h) ==
    /\ bpc[h] = "clear"
    /\ broadcastCancelFlag' = FALSE
    /\ bpc' = [bpc EXCEPT ![h] = "targets"]
    /\ UNCHANGED <<dlCore, srVars, broadcastInProgress, cpc, toPush, inChan, wk,
                   tally, accepted>>

\* the targets are read from the database; with none the handler returns,
\* otherwise the counters are zero, jobs is made and the workers are started
bcTargets(h) ==
    /\ bpc[h] = "targets"
    /\ \E k \in 0..NTargets :
           IF k = 0
           THEN /\ bpc' = [bpc EXCEPT ![h] = "defer"]
                /\ UNCHANGED <<toPush, wk, tally>>
           ELSE /\ bpc' = [bpc EXCEPT ![h] = "push"]
                /\ toPush' = [toPush EXCEPT ![h] = k]
                /\ tally' = [tally EXCEPT ![h] =
                                 [success |-> 0, failed |-> 0, total |-> k]]
                /\ wk' = [wk EXCEPT ![h] =
                              [w \in 1..NWorkers |-> [st |-> "range", late |-> FALSE]]]
    /\ UNCHANGED <<dlCore, srVars, broadcastInProgress, broadcastCancelFlag, cpc,
                   inChan, accepted>>

\* jobs <- id: blocks while the channel holds as many targets as it has room for
bcPush(h) ==
    /\ bpc[h] = "push"
    /\ toPush[h] > 0
    /\ inChan[h] < NWorkers
    /\ toPush' = [toPush EXCEPT ![h] = @ - 1]
    /\ inChan' = [inChan EXCEPT ![h] = @ + 1]
    /\ UNCHANGED <<dlCore, srVars, broadcastInProgress, broadcastCancelFlag, bpc,
                   cpc, wk, tally, accepted>>

\* close(jobs), and the handler goes on to wg.Wait()
bcClose(h) ==
    /\ bpc[h] = "push"
    /\ toPush[h] = 0
    /\ bpc' = [bpc EXCEPT ![h] = "wait"]
    /\ UNCHANGED <<dlCore, srVars, broadcastInProgress, broadcastCancelFlag, cpc,
                   toPush, inChan, wk, tally, accepted>>

\* wg.Wait() returns when every worker has returned; the result is reported
bcWait(h) ==
    /\ bpc[h] = "wait"
    /\ \A w \in 1..NWorkers : wk[h][w].st = "exit"
    /\ bpc' = [bpc EXCEPT ![h] = "final"]
    /\ UNCHANGED <<dlCore, srVars, broadcastInProgress, broadcastCancelFlag, cpc,
                   toPush, inChan, wk, tally, accepted>>

\* "Extra safety": broadcastInProgress.Store(false) before the return
bcFinal(h) ==
    /\ bpc[h] = "final"
    /\ broadcastInProgress' = FALSE
    /\ bpc' = [bpc EXCEPT ![h] = "defer"]
    /\ UNCHANGED <<dlCore, srVars, broadcastCancelFlag, cpc, toPush, inChan, wk,
                   tally, accepted>>

\* the deferred broadcastInProgress.Store(false) of every return after the check
bcDefer(h) ==
    /\ bpc[h] = "defer"
    /\ broadcastInProgress' = FALSE
    /\ bpc' = [bpc EXCEPT ![h] = "done"]
    /\ UNCHANGED <<dlCore, srVars, broadcastCancelFlag, cpc, toPush, inChan, wk,
                   tally, accepted>>

\* a worker, for id := range jobs: it takes a target off the channel
wkDequeue(h, w) ==
    /\ wk[h][w].st = "range"
    /\ inChan[h] > 0
    /\ inChan' = [inChan EXCEPT ![h] = @ - 1]
    /\ wk' = [wk EXCEPT ![h][w] = [st |-> "check", late |-> h \in accepted]]
    /\ UNCHANGED <<dlCore, srVars, broadcastInProgress, broadcastCancelFlag, bpc,
                   cpc, toPush, tally, accepted>>

\* a worker, the range over the closed and drained channel ends: wg.Done()
wkExit(h, w) ==
    /\ wk[h][w].st = "range"
    /\ inChan[h] = 0
    /\ bpc[h] = "wait"
    /\ wk' = [wk EXCEPT ![h][w] = [st |-> "exit", late |-> FALSE]]
    /\ UNCHANGED <<dlCore, srVars, broadcastInProgress, broadcastCancelFlag, bpc,
                   cpc, toPush, inChan, tally, accepted>>

\* a worker that skips a target of a cancelled broadcast without counting it
wkCheck_Uncounted(h, w) ==
    /\ wk[h][w].st = "check"
    /\ IF broadcastCancelFlag
       THEN wk' = [wk EXCEPT ![h][w] = [st |-> "range", late |-> FALSE]]
       ELSE wk' = [wk EXCEPT ![h][w].st = "send"]
    /\ UNCHANGED <<dlCore, srVars, broadcastInProgress, broadcastCancelFlag, bpc,
                   cpc, toPush, inChan, tally, accepted>>

\* a worker, broadcastCancelFlag.Load(): set, the target is counted as failed
\* and the next one is taken; clear, the worker goes on to send
wkCheck(h, w) ==
    /\ wk[h][w].st = "check"
    /\ IF broadcastCancelFlag
       THEN /\ tally' = [tally EXCEPT ![h].failed = @ + 1]
            /\ wk' = [wk EXCEPT ![h][w] = [st |-> "range", late |-> FALSE]]
       ELSE /\ wk' = [wk EXCEPT ![h][w].st = "send"]
            /\ UNCHANGED tally
    /\ UNCHANGED <<dlCore, srVars, broadcastInProgress, broadcastCancelFlag, bpc,
                   cpc, toPush, inChan, accepted>>

\* a worker, one SendMessage / CopyTo / ForwardTo: sent, a flood wait (sleep
\* and send again), or another error
wkSend(h, w) ==
    /\ wk[h][w].st = "send"
    /\ \E res \in {"sent", "floodWait", "error"} :
           CASE res = "sent" ->
                    /\ tally' = [tally EXCEPT ![h].success = @ + 1]
                    /\ wk' = [wk EXCEPT ![h][w] = [st |-> "range", late |-> FALSE]]
             [] res = "floodWait" ->
                    /\ wk' = [wk EXCEPT ![h][w].st = "sleep"]
                    /\ UNCHANGED tally
             [] res = "error" ->
                    /\ tally' = [tally EXCEPT ![h].failed = @ + 1]
                    /\ wk' = [wk EXCEPT ![h][w] = [st |-> "range", late |-> FALSE]]
    /\ UNCHANGED <<dlCore, srVars, broadcastInProgress, broadcastCancelFlag, bpc,
                   cpc, toPush, inChan, accepted>>

\* a worker, the flood wait is over: continue, to the send
wkWake(h, w) ==
    /\ wk[h][w].st = "sleep"
    /\ wk' = [wk EXCEPT ![h][w].st = "send"]
    /\ UNCHANGED <<dlCore, srVars, broadcastInProgress, broadcastCancelFlag, bpc,
                   cpc, toPush, inChan, tally, accepted>>

\* cancelBroadcastHandler, the check: nothing in progress, inform and return
ccCheck(c) ==
    /\ cpc[c] = "idle"
    /\ cpc' = [cpc EXCEPT ![c] = IF broadcastInProgress THEN "mark" ELSE "none"]
    /\ UNCHANGED <<dlCore, srVars, broadcastInProgress, broadcastCancelFlag, bpc,
                   toPush, inChan, wk, tally, accepted>>

\* broadcastCancelFlag.Store(true): the cancellation is accepted for the
\* broadcasts whose workers are running
ccMark(c) ==
    /\ cpc[c] = "mark"
    /\ broadcastCancelFlag' = TRUE
    /\ accepted' = accepted \cup {h \in Bs : WorkersRunning(h)}
    /\ cpc' = [cpc EXCEPT ![c] = "free"]
    /\ UNCHANGED <<dlCore, srVars, broadcastInProgress, bpc, toPush, inChan, wk,
                   tally>>

\* broadcastInProgress.Store(false), and the reply "Broadcast cancelled. You
\* can start a new broadcast now."
ccFree(c) ==
    /\ cpc[c] = "free"
    /\ broadcastInProgress' = FALSE
    /\ cpc' = [cpc EXCEPT ![c] = "done"]
    /\ UNCHANGED <<dlCore, srVars, broadcastCancelFlag, bpc, toPush, inChan, wk,
                   tally, accepted>>

InitBroadcast ==
    /\ variant = 1
    /\ ApiUrl = ""
    /\ APIKey = ""
    /\ NoDownload
    /\ NoParams
    /\ NoSearch
    /\ NoBroadcast

NextBroadcast ==
    \/ \E h \in Bs :
        \/ bcCheck(h)
        \/ bcStore(h)
        \/ bcParse(h)
        \/ bcClear(h)
        \/ bcTargets(h)
        \/ bcPush(h)
        \/ bcClose(h)
        \/ bcWait(h)
        \/ bcFinal(h)
        \/ bcDefer(h)
        \/ \E w \in 1..NWorkers :
            \/ wkDequeue(h, w)
            \/ wkExit(h, w)
            \/ wkCheck(h, w)
            \/ wkSend(h, w)
            \/ wkWake(h, w)
    \/ \E c \in Cs :
        \/ ccCheck(c)
        \/ ccMark(c)
        \/ ccFree(c)

SpecBroadcast == InitBroadcast /\ [][NextBroadcast]_vars

\* one /broadcast and the /cancelbroadcast commands sent while it runs
NextOneBroadcast ==
    \/ \E h \in {"b1"} :
        \/ bcCheck(h)
        \/ bcStore(h)
        \/ bcParse(h)
        \/ bcClear(h)
        \/ bcTargets(h)
        \/ bcPush(h)
        \/ bcClose(h)
        \/ bcWait(h)
        \/ bcFinal(h)
        \/ bcDefer(h)
        \/ \E w \in 1..NWorkers :
            \/ wkDequeue(h, w)
            \/ wkExit(h, w)
            \/ wkCheck(h, w)
            \/ wkSend(h, w)
            \/ wkWake(h, w)
    \/ \E c \in Cs :
        \/ ccCheck(c)
        \/ ccMark(c)
        \/ ccFree(c)

SpecOneBroadcast == InitBroadcast /\ [][NextOneBroadcast]_vars

----------------------------------------------------------------------------
(* Properties of the acquisition orchestrator *)

Failed(ret) == ret.err \notin {"", "pending"}

\* C1: in either mode, when a file of the mode's probe set exists at the
\* start of downloadTrack, downloadTrack returns that path and sends no HTTP
\* request and starts no subprocess, whatever the remote API's configuration
\* (stated for variant 1 and a call whose context is not cancelled)
C1_CacheHitShortCircuits ==
    \A r \in Reqs :
        (variant = 1 /\ pc[r] = "done" /\ hit0[r] # "" /\ ~cancelled[r]) =>
            /\ result[r] = Ok(hit0[r])
            /\ ~n[r].http
            /\ n[r].procs = 0

\* C2: within one downloadTrack call the remote backend is attempted at most
\* once and only with base URL and key both set, the local extractor at most
\* once and only after the remote attempt failed or was skipped as not
\* configured, and the remote backend does not run once the extractor started
C2_BackendsStrictlySequential ==
    \A r \in Reqs :
        /\ n[r].remote <= 1
        /\ n[r].ytdlp <= 1
        /\ n[r].remote = 1 => (ApiUrl # "" /\ APIKey # "")
        /\ n[r].ytdlp = 1 =>
              /\ pc[r] \notin RemotePcs \cup {"apiRet"}
              /\ IF n[r].remote = 0 THEN ApiUrl = "" \/ APIKey = ""
                 ELSE Failed(apiRet[r])

\* the remote failures downloadTrack turns into an extractor attempt
RemoteFailures ==
    {"apiError", "badStatus", "decodeFailed", "requestFailed", "maxRetries",
     "noLink", "apiFailed"}

\* C3: downloadTrack returns a failure only when every available backend has
\* failed; a remote backend that is not configured or that failed (error
\* status, non-200, decode failure, retry budget) is followed by one extractor
\* attempt, and when that attempt succeeds downloadTrack returns its path
C3_FailureOnlyAfterAllBackends ==
    \A r \in Reqs :
        pc[r] = "done" =>
            /\ Failed(result[r]) =>
                  /\ n[r].ytdlp = 1
                  /\ Failed(ytRet[r])
                  /\ n[r].remote = 1 => Failed(apiRet[r])
            /\ (n[r].remote = 0 \/ apiRet[r].err \in RemoteFailures) =>
                  n[r].ytdlp = 1
            /\ (n[r].ytdlp = 1 /\ ytRet[r].err = "") =>
                  /\ result[r] = ytRet[r]
                  /\ Exists(files, result[r].path)

C3_Witness ==
    \E r \in Reqs :
        /\ pc[r] = "done"
        /\ apiRet[r].err = "apiError"
        /\ n[r].ytdlp = 1
        /\ result[r].err = ""

\* C4: variant 1, a call not cancelled and without I/O fault: the answers
\* downloading, downloading, done (with a link) make three status requests,
\* two sleeps that both run their interval, then one fetch of the link, and
\* the backend returns the written file; with a fault or a cancellation the
\* counts are the same, except that the fetch may not have been sent
C4_DownloadingDownloadingDone ==
    \A r \in Reqs :
        (variant = 1 /\ pc[r] = "apiRet" /\ cnt[r].hist = "dlThenDone"
            /\ cnt[r].status = 3) =>
            /\ cnt[r].sleeps = 2
            /\ cnt[r].slept = 2
            /\ cnt[r].fetch <= 1
            /\ (~cnt[r].fault /\ ~cancelled[r]) =>
                  /\ cnt[r].fetch = 1
                  /\ apiRet[r].err = ""
                  /\ files[apiRet[r].path] = "complete"

C4_Witness ==
    \E r \in Reqs :
        /\ variant = 1 /\ pc[r] = "apiRet"
        /\ cnt[r].hist = "dlThenDone" /\ cnt[r].status = 3
        /\ cnt[r].sleeps = 2 /\ cnt[r].fetch = 1
        /\ apiRet[r].err = ""

\* C5: variant 1: the remote backend sends at most MaxRetries (10) status
\* requests in a call; when all ten answers are downloading and the context is
\* not cancelled it returns the retry-budget failure, has fetched nothing, and
\* no extractor has been called or started
C5_RetryBudget ==
    \A r \in Reqs :
        variant = 1 =>
            /\ cnt[r].status <= MaxRetries
            /\ (pc[r] = "apiRet" /\ cnt[r].hist = "dlOnly"
                  /\ cnt[r].status = MaxRetries /\ ~cancelled[r]) =>
                  /\ apiRet[r].err = "maxRetries"
                  /\ cnt[r].fetch = 0
                  /\ n[r].ytdlp = 0
                  /\ n[r].procs = 0

C5_Witness ==
    \E r \in Reqs :
        /\ variant = 1 /\ pc[r] = "apiRet"
        /\ apiRet[r].err = "maxRetries"
        /\ cnt[r].hist = "dlOnly" /\ cnt[r].status = MaxRetries
        /\ cnt[r].slept = MaxRetries

C6_Step(r) ==
    (variant = 1 /\ pc[r] = "decide"
        /\ Normalize(respData[r].Status) \notin {"done", "downloading"}
        /\ pc'[r] # "decide") =>
        /\ pc'[r] = "apiRet"
        /\ apiRet'[r] = FailMsg("apiError", ApiErrMsg(respData[r]))
        /\ cnt'[r] = cnt[r]

C6_After(r) ==
    (variant = 1 /\ apiRet[r].err = "apiError") =>
        /\ pc[r] \notin RemotePcs
        /\ pc[r] = "apiRet" =>
              /\ cnt[r].fetch = 0
              /\ cnt[r].sleeps + 1 = cnt[r].status
              /\ cnt[r].slept = cnt[r].sleeps

\* C6: variant 1: a decoded status that is neither done nor downloading makes
\* the remote backend return at once the "API error" failure with the record's
\* error (else message) field; that answer is followed by no sleep, no status
\* request and no fetch
C6_UnknownStatusTerminal ==
    /\ [](\A r \in Reqs : C6_After(r))
    /\ [][\A r \in Reqs : C6_Step(r)]_vars

C6_Witness ==
    \E r \in Reqs :
        /\ variant = 1 /\ pc[r] = "apiRet"
        /\ apiRet[r].err = "apiError" /\ apiRet[r].msg = "E"
        /\ cnt[r].status = 3

\* C7: a context cancelled during a polling sleep ends the sleep at once: the
\* remote backend returns the cancellation, the interval is not waited out, no
\* further status request is sent, and the retry-budget failure is never
\* reported
C7_SleepAbortsOnCancel ==
    /\ [][\A r \in Reqs :
            (pc[r] = "sleep" /\ cancelled[r] /\ pc'[r] # "sleep") =>
                /\ pc'[r] = "apiRet"
                /\ apiRet'[r].err = "ctx"
                /\ cnt'[r].slept = cnt[r].slept
                /\ cnt'[r].status = cnt[r].status]_vars
    /\ [](\A r \in Reqs :
            cnt[r].cancelInSleep => apiRet[r].err \notin {"maxRetries", "apiFailed"})

\* C8: variant 1: when the remote backend returns the context's cancellation,
\* downloadTrack returns it to its caller and does not call the local extractor
C8_CancellationPropagated ==
    \A r \in Reqs :
        (variant = 1 /\ apiRet[r].err = "ctx") =>
            /\ n[r].ytdlp = 0
            /\ pc[r] \notin {"ytdlp", "ytdlpRun", "ytRet"}
            /\ pc[r] = "done" => result[r] = apiRet[r]

BothFetched(e) ==
    \A r \in Reqs :
        /\ pc[r] = "done"
        /\ result[r] = Ok(e)
        /\ n[r].http

\* C18 as stated: two simultaneous requests for the same media id run with no
\* mutual exclusion, both can miss the cache probe, fetch the media and write
\* the same destination path, and the file then holds the content of the last
\* writer
C18_LastWriterWins ==
    \A e \in Exts :
        BothFetched(e) => content[e] = Whole(lastw[e])

\* C18 as amended: when both requests have written the same destination path,
\* the file is whole and each of its chunks is that of one of the two
\* requests, not of one request for the whole file
C18_ChunksOfEitherWriter ==
    \A e \in Exts :
        BothFetched(e) =>
            /\ Len(content[e]) = NChunks
            /\ \A i \in 1..NChunks : content[e][i] \in Reqs

\* both requests missed the probe, fetched and wrote {id}.mp3, and the file
\* is made of chunks of both
C18_Witness ==
    /\ BothFetched("mp3")
    /\ \A r \in Reqs : hit0[r] = "" /\ n[r].remote = 1 /\ n[r].ytdlp = 0
    /\ \E i, j \in 1..NChunks : content["mp3"][i] # content["mp3"][j]

\* the remote backend of request r looks at the downloads directory while the
\* first file of its probe list that is there is one still being written
ProbesUnfinished(r, e) ==
    /\ pc[r] = "probe"
    /\ \E i \in 1..Len(ProbeExts(video[r])) :
          /\ ProbeExts(video[r])[i] = e
          /\ files[e] = "partial"
          /\ \A j \in 1..(i - 1) : files[ProbeExts(video[r])[j]] = "absent"

\* C25: the cache probe looks at presence only: when the first file of the
\* probe list that is there is still being written, by another request, the
\* probe returns its path as a finished download
C25_HitOnUnfinishedFile ==
    [][\A r \in Reqs, e \in Exts :
          (ProbesUnfinished(r, e) /\ pc'[r] # pc[r]) =>
              /\ pc'[r] = "apiRet"
              /\ apiRet'[r] = Ok(e)]_vars

\* request a has created {id}.mp3 and is still copying into it, request b
\* has returned that path from its probe without any request or subprocess
C25_Witness ==
    /\ pc["a"] = "copy"
    /\ files["mp3"] = "partial"
    /\ lastw["mp3"] = "a"
    /\ Len(content["mp3"]) < NChunks
    /\ pc["b"] = "done"
    /\ result["b"] = Ok("mp3")
    /\ ~n["b"].http /\ n["b"].ytdlp = 0 /\ n["b"].procs = 0

\* C26: a failed remote fetch leaves its file behind: when streaming the link
\* fails or is cancelled after the destination was created, the remote backend
\* returns failure and the partial file stays at {id}.{format}; an acquisition
\* of the same id and mode that starts when a file of the probe list is there
\* returns a file of that list as a cache hit, without a request and without
\* a subprocess
C26_FailedFetchLeavesFile ==
    /\ [][\A r \in Reqs :
            (pc[r] = "copy" /\ pc'[r] = "apiRet" /\ apiRet'[r].err # "") =>
                /\ files'[Dest(r)] = files[Dest(r)]
                /\ files'[Dest(r)] # "absent"
                /\ content'[Dest(r)] = content[Dest(r)]]_vars
    /\ [](\A r \in Reqs :
            (pc[r] = "done" /\ hit0[r] # "" /\ ApiUrl # "" /\ APIKey # "") =>
                /\ result[r].err = ""
                /\ \E i \in 1..Len(ProbeExts(video[r])) :
                      result[r].path = ProbeExts(video[r])[i]
                /\ ~n[r].http
                /\ n[r].ytdlp = 0
                /\ n[r].procs = 0)

\* the fetch of request a failed after it had created {id}.mp3, the partial
\* file is still there, and request b, started after the file was created,
\* has returned it without a request and without a subprocess
C26_Witness ==
    /\ pc["a"] = "done"
    /\ apiRet["a"].err = "writeFailed"
    /\ files["mp3"] = "partial"
    /\ lastw["mp3"] = "a"
    /\ pc["b"] = "done"
    /\ hit0["b"] = "mp3"
    /\ result["b"] = Ok("mp3")
    /\ ~n["b"].http /\ n["b"].ytdlp = 0

\* C27: the audio and the video probe lists share webm: whichever the mode of
\* the request, when {id}.webm is the one file in the downloads directory the
\* probe returns it as a cache hit, so a file written by an acquisition of one
\* mode is a hit for an acquisition of the other mode
C27_WebmHitsInBothModes ==
    [][\A r \in Reqs :
          (/\ pc[r] = "probe" /\ pc'[r] # pc[r]
           /\ files["webm"] # "absent"
           /\ \A e \in Exts \ {"webm"} : files[e] = "absent") =>
              /\ pc'[r] = "apiRet"
              /\ apiRet'[r] = Ok("webm")]_vars

\* the audio request has written {id}.webm whole, and the video request has
\* returned that file from its probe without a request or a subprocess
C27_Witness ==
    \E r, w \in Reqs :
        /\ video[r] /\ ~video[w]
        /\ content["webm"] = Whole(w)
        /\ pc[r] = "done"
        /\ result[r] = Ok("webm")
        /\ ~n[r].http /\ n[r].ytdlp = 0

\* C28: variant 1: the record the payloads are decoded into is reused across
\* the attempts of the polling loop: a field the payload omits keeps the value
\* of an earlier payload; so a done payload without link that follows a
\* payload with a link makes the loop fetch that earlier link, and a payload
\* without status that follows a downloading payload makes it sleep again
C28_RecordReusedAcrossAttempts ==
    /\ [][\A r \in Reqs :
            (variant = 1 /\ pc[r] = "poll" /\ pc'[r] = "decide") =>
                \A f \in DOMAIN ZeroResp :
                    respData'[r][f] = IF cnt'[r].got[f] = Absent
                                      THEN respData[r][f]
                                      ELSE cnt'[r].got[f]]_vars
    /\ [][\A r \in Reqs :
            (/\ variant = 1 /\ pc[r] = "decide" /\ pc'[r] # "decide"
             /\ cnt[r].status > 1
             /\ cnt[r].got.Link = Absent /\ respData[r].Link # ""
             /\ cnt[r].got.Status \in {"done", "DONE"}) =>
                pc'[r] = "fetch"]_vars
    /\ [][\A r \in Reqs :
            (/\ variant = 1 /\ pc[r] = "decide" /\ pc'[r] # "decide"
             /\ cnt[r].status > 1
             /\ cnt[r].got.Status = Absent) =>
                pc'[r] = "sleep"]_vars

\* the second payload is done without a link, the record still holds the link
\* of the first, a downloading payload, and the loop is about to fetch it
C28_Witness ==
    \E r \in Reqs :
        /\ variant = 1
        /\ pc[r] = "decide"
        /\ cnt[r].status = 2
        /\ cnt[r].got.Status = "done"
        /\ cnt[r].got.Link = Absent
        /\ respData[r].Link = "L"
        /\ Decision(respData[r]) = "fetch"

----------------------------------------------------------------------------
(* Properties of the search resolver *)

\* C9: when the remote search backend returns a non-empty list, the local
\* extractor search is not invoked and searchYouTube returns that list as it is
C9_RemoteSearchWins ==
    (apiResults.err = "" /\ Len(apiResults.list) > 0) =>
        /\ calls.ytdlp = 0
        /\ calls.procs = 0
        /\ spc \in {"apiRet", "done"}
        /\ spc = "done" => searchRet = apiResults

C9_Witness ==
    /\ spc = "done"
    /\ Len(apiResults.list) = 2
    /\ searchRet = apiResults
    /\ calls.ytdlp = 0

\* C10: when the remote search backend does not succeed (not configured,
\* request error or timeout, non-200, decode failure, empty list), the local
\* extractor search is invoked exactly once and searchYouTube returns what it
\* parsed
C10_LocalSearchFallback ==
    /\ calls.ytdlp <= 1
    /\ (spc = "done" /\ apiResults.err \in
            {"apiDisabled", "requestFailed", "badStatus", "invalidResponse",
             "noResults"}) =>
          /\ calls.ytdlp = 1
          /\ searchRet = ytResults
          /\ ytResults # SPending

C10_Witness ==
    /\ spc = "done"
    /\ apiResults.err = "noResults"
    /\ calls.ytdlp = 1
    /\ Len(searchRet.list) = 2
    /\ searchRet = ytResults

\* C24: GetTrack on a valid link never returns a TrackInfo whose media id
\* differs from the id extracted from that link, neither from the remote API
\* track lookup nor from the GetInfo fallback
C24_TrackOfTheLink ==
    (op = "GetTrack" /\ opc = "done" /\ opRet.err = "") =>
        /\ Len(opRet.list) = 1
        /\ opRet.list[1].ID = extractVideoID(query)

\* C23: the list the search returns holds at most N = 5 results, whichever
\* backend answered
C23_AtMostNResults ==
    (spc = "done" /\ searchRet.err = "") => Len(searchRet.list) <= SearchN

\* the lines of the output that are well-formed JSON records with an id
ValidLines(lines) == SelectSeq(lines, LAMBDA l : l.kind \in {"rec", "long"})

\* C22: the local extractor search returns, in output order, one track for
\* every output line that is a well-formed JSON record with a non-empty id and
\* skips every other line without dropping a valid line that comes after it,
\* whatever the exit code of the subprocess when there is a valid line
C22_ParserKeepsEveryValidLine ==
    (spc = "done" /\ calls.ytdlp = 1 /\ ValidLines(ytOut.lines) # <<>>) =>
        LET valid == ValidLines(ytOut.lines) IN
        ytResults = SOk([i \in 1..Len(valid) |-> YtTrack(valid[i].id)])

----------------------------------------------------------------------------
(* Properties of the search entry and the metadata resolver *)

\* a backend that ran and gave nothing: it failed, or it returned no result
GaveNothing(res) ==
    \/ res.err \notin {"", "pending"}
    \/ res.err = "" /\ Len(res.list) = 0

\* C11: search returns a failure exactly when both search backends failed or
\* returned zero results, and a successful search returns a non-empty list
\* (of Search, and of searchYouTube which it calls)
C11_SearchFailsOnlyWhenBothFail ==
    /\ (opc = "done" /\ op = "Search") =>
          /\ opRet.err # "" <=> (GaveNothing(apiResults) /\ GaveNothing(ytResults))
          /\ opRet.err = "" => Len(opRet.list) > 0
    /\ spc = "done" =>
          /\ searchRet.err # "" <=> (GaveNothing(apiResults) /\ GaveNothing(ytResults))
          /\ searchRet.err = "" => Len(searchRet.list) > 0

C11_Witness ==
    /\ opc = "done" /\ op = "Search"
    /\ apiResults.err = "noResults"
    /\ ytResults.err = "noYtdlpResults"
    /\ opRet.err = "noYtdlpResults"

\* C12: for a valid link GetInfo returns exactly the one search candidate
\* whose id equals the id extracted from the link, wherever it stands in the
\* result list, never a candidate with another id; when the search succeeded
\* and no candidate has that id, it fails with the not-found condition
C12_ExactCandidate ==
    (op = "GetInfo" /\ opc = "done" /\ spc = "done") =>
        LET hits == {i \in 1..Len(searchRet.list) : searchRet.list[i].ID = videoID} IN
        /\ videoID = extractVideoID(query)
        /\ videoID \in Ids
        /\ opRet.err = "" =>
              /\ Len(opRet.list) = 1
              /\ opRet.list[1].ID = videoID
              /\ \E i \in hits : opRet.list[1] = searchRet.list[i]
        /\ (searchRet.err = "" /\ hits # {}) => opRet.err = ""
        /\ (searchRet.err = "" /\ hits = {}) => opRet.err = "notFound"

C12_Witness ==
    /\ op = "GetInfo" /\ opc = "done" /\ spc = "done"
    /\ Len(searchRet.list) = 2
    /\ searchRet.list[1].ID # videoID
    /\ searchRet.list[2].ID = videoID
    /\ opRet = SOk(<<searchRet.list[2]>>)

\* C13: free text is never treated as a link: for a query that is not of one
\* of the three recognized link shapes, IsValid is false, extractVideoID
\* returns the empty id, and GetInfo and GetTrack fail with the "invalid or
\* unsupported link" condition without calling a search backend or the
\* remote API
C13_FreeTextNeverALink ==
    /\ [](opc = "entry" /\ FindSubmatch(query) = "" =>
             /\ ~IsValid(query)
             /\ extractVideoID(query) = "")
    /\ [][(opc = "entry" /\ op \in {"GetInfo", "GetTrack"}
             /\ FindSubmatch(query) = "" /\ opc' # opc) =>
                /\ opc' = "done"
                /\ opRet'.err = "invalidLink"
                /\ calls' = calls
                /\ spc' = "off"]_vars

\* C17: the network calls and subprocesses of the engine are bound to the
\* caller's context: once the ctx given to Search, GetInfo or GetTrack is
\* cancelled, the remote search request in flight ends with a request error,
\* and no further search request is sent and no search subprocess is started
C17_SearchBoundToCallerCtx ==
    [][ctxDone =>
          /\ (spc = "apiWait" /\ spc' # spc) => apiResults'.err = "requestFailed"
          /\ calls'.http = calls.http
          /\ calls'.procs = calls.procs]_vars

----------------------------------------------------------------------------
(* Properties of the argument builders *)

PoolFiles == {CookiesPath[i] : i \in 1..Len(CookiesPath)}

\* C15: variant 1: a download invocation never carries both a cookie file and
\* a proxy: it carries one cookie file of the pool when the pool is not empty
\* (each file of the pool can be the one), else the proxy when one is
\* configured, else neither
C15_CookieXorProxy ==
    variant = 1 =>
        /\ \A i \in 1..Len(built) :
              /\ Cardinality(Attached(built[i])) <= 1
              /\ Len(CookiesPath) > 0 =>
                    \E c \in PoolFiles : Attached(built[i]) = {<<"--cookies", c>>}
              /\ (Len(CookiesPath) = 0 /\ Proxy # "") =>
                    Attached(built[i]) = {<<"--proxy", Proxy>>}
              /\ (Len(CookiesPath) = 0 /\ Proxy = "") => Attached(built[i]) = {}
        /\ Len(CookiesPath) > 0 => getCookieFile(CookiesPath) = PoolFiles

C15_Witness ==
    /\ variant = 1
    /\ Len(CookiesPath) = 2 /\ CookiesPath[1] # CookiesPath[2]
    /\ Proxy # ""
    /\ Len(built) = 2
    /\ Attached(built[1]) = {<<"--cookies", CookiesPath[2]>>}
    /\ Attached(built[2]) = {<<"--cookies", CookiesPath[1]>>}

\* what a download invocation (variant 1) can carry after --cookies / --proxy
DownloadAttachments ==
    {Attached(BuildYtdlpParams(1, job.id, job.video, c, Proxy)) :
        c \in getCookieFile(CookiesPath)}

\* what a search invocation can carry after --cookies / --proxy
SearchAttachments ==
    {Attached(SearchArgs(searchImpl, job.id, c, Proxy)) :
        c \in SearchCookie(searchImpl, CookiesPath)}

\* C16: the search uses the cookie/proxy selection of the download: for every
\* configuration a search invocation can carry exactly the attachments a
\* download invocation can carry (so every cookie file of the pool can be
\* chosen for a search), and every search invocation made carries one of them
C16_SearchUsesSameSelection ==
    /\ SearchAttachments = DownloadAttachments
    /\ \A i \in 1..Len(sargs) : Attached(sargs[i]) \in DownloadAttachments

\* a BuildYtdlpParams call returns and leaves the configuration, the
\* downloads directory and every other variable as they were
BuildChangesNoState ==
    [][built' # built =>
          /\ Len(built') = Len(built) + 1
          /\ SubSeq(built', 1, Len(built)) = built
          /\ UNCHANGED <<variant, ApiUrl, APIKey, CookiesPath, Proxy, job, disk,
                         searchImpl, sargs, pc, n, srVars>>]_vars

\* C19 as stated: BuildYtdlpParams is a pure function of (media id, mode): it
\* changes no state, and two calls with the same media id, mode and
\* configuration return the same argument list
C19_BuildParamsPure ==
    /\ [](\A i, j \in 1..Len(built) : built[i] = built[j])
    /\ BuildChangesNoState

\* an argument list with the file after --cookies masked
Masked(args) ==
    [i \in 1..Len(args) |->
        IF i > 1 /\ args[i - 1] = "--cookies" THEN "{cookie file}" ELSE args[i]]

\* C19 as amended: BuildYtdlpParams changes no state, and two calls with the
\* same media id, mode and configuration return argument lists that are equal
\* except for the file after --cookies, which in each call is some file of the
\* pool; the lists are equal when the pool holds at most one distinct file
C19_BuildParamsPureUpToCookie ==
    /\ [](\A i, j \in 1..Len(built) :
             /\ Masked(built[i]) = Masked(built[j])
             /\ \A a \in Attached(built[i]) : a[1] = "--cookies" => a[2] \in PoolFiles
             /\ Cardinality(PoolFiles) <= 1 => built[i] = built[j])
    /\ BuildChangesNoState

C19_Witness ==
    /\ variant = 1
    /\ Len(built) = 2
    /\ built[1] # built[2]
    /\ Masked(built[1]) = Masked(built[2])
    /\ job.video

----------------------------------------------------------------------------
(* Properties of the link functions *)

\* C20: normalizeYouTubeURL is idempotent: for every string u,
\* normalize(normalize(u)) = normalize(u)
C20_NormalizeIdempotent ==
    Len(norm) = 2 => norm[2] = norm[1]

\* C21: for each of the three recognized link shapes carrying an 11-character
\* id, with or without a trailing ?/# suffix, normalizeYouTubeURL followed by
\* extractVideoID yields that id, and normalizeYouTubeURL yields the canonical
\* watch URL of that id, the same for the three shapes
C21_ShapesGiveIdAndCanonicalURL ==
    FindSubmatch(query) # "" =>
        /\ norm # <<>> => norm[1] = WatchURL(<<FindSubmatch(query)>>)
        /\ op = "extractVideoID" => videoID = FindSubmatch(query)

----------------------------------------------------------------------------
(* Properties of the broadcast handlers *)

\* C29: parallel broadcasts are prevented: under every interleaving of
\* /broadcast and /cancelbroadcast commands, a /broadcast right after a
\* /cancelbroadcast included, at most one broadcastHandler invocation is past
\* the in-progress check with its workers able to send
C29_OneBroadcastAtATime ==
    Cardinality({h \in Bs : WorkersRunning(h)}) <= 1

\* C30: once a /cancelbroadcast was accepted for a running broadcast, a
\* target a worker of that broadcast takes off the channel afterwards is not
\* sent to but counted as failed, also when a new /broadcast is started
\* before the cancelled one has drained its channel
C30_NoSendAfterCancel ==
    [][\A h \in Bs : \A w \in 1..NWorkers :
          (wk[h][w].st = "check" /\ wk[h][w].late /\ wk'[h][w] # wk[h][w]) =>
              /\ wk'[h][w].st = "range"
              /\ tally'[h].failed = tally[h].failed + 1]_vars

\* C31: when a broadcast reaches its completion report, every target has
\* been counted exactly once: success + failed equals the number of targets,
\* under every interleaving of the workers, of flood-wait retries and of a
\* concurrent cancel
C31_EveryTargetCountedOnce ==
    \A h \in Bs :
        bpc[h] \in {"final", "defer", "done"} =>
            tally[h].success + tally[h].failed = tally[h].total

\* a broadcast of NTargets targets is at its report after a cancel was
\* accepted for it: some targets were sent to, some were skipped
C31_Witness ==
    \E h \in Bs :
        /\ bpc[h] = "final"
        /\ h \in accepted
        /\ tally[h].total = NTargets
        /\ tally[h].success > 0
        /\ tally[h].failed > 0

=============================================================================
